---- MODULE Spec2Model ----
(***************************************************************************)
(* Ticket lifecycle and enforcement engine of asoc-core:                   *)
(*   TicketIssuer (generateTicket / validateTicket / validateTicketSync /  *)
(*   validateTransaction), the in-memory AgentRegistry with the            *)
(*   issue_audit_ticket and activate_kill_switch tools, and the trust      *)
(*   proxy middleware (createTrustProxy).                                  *)
(*                                                                         *)
(* A ticket is a JWT: three dot-joined base64url segments.  The model      *)
(* keeps the token as the sequence of its characters, so that splitting,   *)
(* decoding and signature comparison are computed the way the code and     *)
(* the jsonwebtoken / jws / jwa call chain compute them.  Cryptography is  *)
(* symbolic: a signature is the term (signing input, key), and it can be   *)
(* produced only by signing.                                               *)
(*                                                                         *)
(* Time is counted in units of 100 seconds.                                *)
(***************************************************************************)
EXTENDS Integers, Sequences, FiniteSets, TLC

\* --------------------------------------------------------------------- state

VARIABLES
  now,        \* the wall clock, Math.floor(Date.now() / 1000), in time units
  registry,   \* the agents on file: agent id -> AgentRecord (the in-memory
              \* AgentRegistry, or the rows of the database)
  ticket,     \* the ticket being followed: the token last issued, and by whom
  last,       \* the call that has just returned, with its arguments and result
  expiredBy,  \* the issuers that have reported the followed ticket EXPIRED
  noted,      \* an earlier call a caller kept, with its result
  peer        \* the tool call of a second client, in flight or returned

vars == <<now, registry, ticket, last, expiredBy, noted, peer>>

\* ---------------------------------------------------------------- bounds

\* The clock runs from 0 to MaxTime.
MaxTime == 3

\* ------------------------------------------------------------ characters

\* The base64url alphabet (a prefix of it): the character B64[n + 1] carries
\* the value n.
B64 == <<"A", "B", "C", "D", "E", "F", "G", "H">>

\* A base64url character whose decoded bytes are not valid JSON text.
JsonBreak == "z"

\* A character outside the base64url alphabet.
NonB64 == "!"

\* The segment separator.
Dot == "."

B64Chars == {B64[i] : i \in 1..Len(B64)} \cup {JsonBreak}

Alphabet == B64Chars \cup {NonB64, Dot}

\* Value carried by a base64url character.
CharValue(c) == CHOOSE n \in 0..(Len(B64) - 1) : B64[n + 1] = c

\* Index of a value in a table (1-based), 0 when it is not in the table.
IndexOf(tbl, v) ==
  IF \E i \in 1..Len(tbl) : tbl[i] = v
  THEN CHOOSE i \in 1..Len(tbl) : tbl[i] = v
  ELSE 0

\* ------------------------------------------------------------ value tables

IssuerNames == <<"asoc-authority.com", "other-authority.example">>

\* The seeded agents, and an agent registered later.
AgentIds == <<"agent-12345", "agent-67890", "agent-24680">>

AuditLevel == <<"Bronze", "Silver", "Gold", "Platinum">>

\* The allowed_mcp_servers lists in use, each as the set of its entries.
ServerLists ==
  << {}, {"finance-node"}, {"*"},
     {"finance-node", "trading-node", "legal-node"},
     {"support-node", "crm-node"} >>

\* Dollar amounts in use (max_op_value and transaction values).
Amounts == <<0, 10, 25, 50, 75, 100>>

\* metadata objects the call sites attach (organization, trust_score).
MetadataValues ==
  << [organization |-> "Acme AI Corp", trust_score |-> 85],
     [organization |-> "Beta Bots Inc", trust_score |-> 68] >>

Algorithms == <<"HS256", "RS256">>

\* Key material: a shared HMAC secret, an RSA key pair, a second HMAC secret.
KeyNames == <<"secret-1", "rsa-1", "secret-2">>

\* Public half of a key: an HMAC secret verifies itself, an RSA private key
\* is verified with its public key.
PublicKeyOf(k) == IF k = "rsa-1" THEN "rsa-1.pub" ELSE k

\* ------------------------------------------------- JS values on the wire

\* The token argument as a JavaScript value: a string of characters, or a
\* value that is not a string, or undefined.
Str(s) == [t |-> "string", s |-> s]

NotAString == [t |-> "number", s |-> <<>>]

Undefined == [t |-> "undefined", s |-> <<>>]

\* jwtString.split('.')
RECURSIVE Split(_)
Split(s) ==
  IF \A i \in 1..Len(s) : s[i] # Dot
  THEN <<s>>
  ELSE LET d == CHOOSE i \in 1..Len(s) :
                  s[i] = Dot /\ \A j \in 1..(i - 1) : s[j] # Dot
       IN <<SubSeq(s, 1, d - 1)>> \o Split(SubSeq(s, d + 1, Len(s)))

\* ------------------------------------------------------- payload encoding

\* Character of a table entry: entry i of the table is written as B64[i].
TableChar(tbl, v) == B64[IndexOf(tbl, v)]

\* An optional property is written as "A" when absent, else as the
\* character after its table character.
OptChar(tbl, rec, key) ==
  IF key \in DOMAIN rec THEN B64[IndexOf(tbl, rec[key]) + 1] ELSE B64[1]

Booleans == <<FALSE, TRUE>>

\* The constraints object of a payload: a character for the object itself
\* ("A" when the payload has none), then one per property, each optional.
ConstraintsChars(p) ==
  IF "constraints" \in DOMAIN p
  THEN << B64[2],
          OptChar(Amounts, p.constraints, "max_op_value"),
          OptChar(ServerLists, p.constraints, "allowed_mcp_servers"),
          OptChar(Booleans, p.constraints, "kill_switch_active") >>
  ELSE << B64[1], B64[1], B64[1], B64[1] >>

\* Variant: the metadata property is not serialized.
EncodePayloadNoMetadata(p) ==
  << TableChar(IssuerNames, p.iss),
     TableChar(AgentIds, p.sub),
     B64[p.iat + 1],
     B64[p.exp + 1],
     TableChar(AuditLevel, p.audit_level) >>
  \o ConstraintsChars(p)
  \o << B64[1] >>

\* JSON.stringify + base64url of an AuditTicketPayload: one character per
\* property, in property order.  An undefined property is left out.
EncodePayload(p) ==
  << TableChar(IssuerNames, p.iss),
     TableChar(AgentIds, p.sub),
     B64[p.iat + 1],
     B64[p.exp + 1],
     TableChar(AuditLevel, p.audit_level) >>
  \o ConstraintsChars(p)
  \o << OptChar(MetadataValues, p, "metadata") >>

PayloadLen == Len(EncodePayload(
  [iss |-> IssuerNames[1], sub |-> AgentIds[1], iat |-> 0, exp |-> 0,
   audit_level |-> AuditLevel[1],
   constraints |-> [max_op_value |-> 0, allowed_mcp_servers |-> {}]]))

\* Entry of a table named by a character, or `other` for a character that
\* names no entry (any other JSON value of that type).
TableValue(tbl, c, other) ==
  IF CharValue(c) + 1 <= Len(tbl) THEN tbl[CharValue(c) + 1] ELSE other

\* Function with k added to the domain of f when the character is not "A".
WithOpt(f, key, tbl, c, other) ==
  IF c = B64[1] THEN f
  ELSE [x \in DOMAIN f \cup {key} |->
          IF x = key
          THEN (IF CharValue(c) <= Len(tbl) THEN tbl[CharValue(c)] ELSE other)
          ELSE f[x]]

\* Does JSON.parse accept the decoded payload segment?
PayloadParses(seg) ==
  /\ Len(seg) = PayloadLen
  /\ \A i \in 1..Len(seg) : seg[i] \in B64Chars \ {JsonBreak}

\* base64url decode + JSON.parse of a payload segment that parses.
DecodePayload(seg) ==
  LET none == [x \in {} |-> 0]
      c == WithOpt(
             WithOpt(
               WithOpt(none, "max_op_value", Amounts, seg[7], 1),
               "allowed_mcp_servers", ServerLists, seg[8], {"?"}),
             "kill_switch_active", Booleans, seg[9], TRUE)
      p == [iss |-> TableValue(IssuerNames, seg[1], "?"),
            sub |-> TableValue(AgentIds, seg[2], "?"),
            iat |-> CharValue(seg[3]),
            exp |-> CharValue(seg[4]),
            audit_level |-> TableValue(AuditLevel, seg[5], "?")]
      q == IF seg[6] = B64[1] THEN p
           ELSE [x \in DOMAIN p \cup {"constraints"} |->
                   IF x = "constraints" THEN c ELSE p[x]]
  IN WithOpt(q, "metadata", MetadataValues, seg[10],
             [organization |-> "?", trust_score |-> 0])

\* The JOSE header {alg, typ: 'JWT'} as jwt.sign writes it.
EncodeHeader(alg) == <<TableChar(Algorithms, alg)>>

HeaderParses(seg) == Len(seg) = 1 /\ seg[1] \in B64Chars \ {JsonBreak}

DecodeHeader(seg) == [alg |-> TableValue(Algorithms, seg[1], "?"), typ |-> "JWT"]

\* ------------------------------------------------------------- signatures

\* Last character of a signature: it names the signing key in its leading
\* bits; its trailing bits are the unused bits of the final base64url
\* character, which a signer writes as zero.
KeyChar(key) == B64[2 * (IndexOf(KeyNames, key) - 1) + 1]

\* jwa sign: the signature over the signing input under a key, as base64url
\* text.  The signature is the term (input, key): the characters of the
\* input other than the separator, then the key character.
JwaSign(alg, input, key) ==
  SelectSeq(input, LAMBDA c : c # Dot) \o <<KeyChar(key)>>

\* The bytes a base64 decoder reads from the final character: the unused
\* trailing bits are dropped.
FinalCharData(c) == CharValue(c) \div 2

\* jwa verify.  HMAC: the signature is recomputed with the secret and the
\* two base64url texts are compared.  RSA: the signature text is base64
\* decoded and the bytes are verified under the public key.
JwaVerify(alg, input, sig, key) ==
  IF alg = "HS256"
  THEN sig = JwaSign(alg, input, key)
  ELSE \E k \in {KeyNames[i] : i \in 1..Len(KeyNames)} :
         /\ PublicKeyOf(k) = key
         /\ LET good == JwaSign(alg, input, k)
                n == Len(good)
            IN /\ Len(sig) = n
               /\ SubSeq(sig, 1, n - 1) = SubSeq(good, 1, n - 1)
               /\ sig[n] \in B64Chars \ {JsonBreak}
               /\ FinalCharData(sig[n]) = FinalCharData(good[n])

\* jwt.sign(payload, key, {algorithm}): header.payload.signature
JwtSign(payload, key, alg) ==
  LET input == EncodeHeader(alg) \o <<Dot>> \o EncodePayload(payload)
  IN Str(input \o <<Dot>> \o JwaSign(alg, input, key))

\* ---------------------------------------------------------------- jwt.verify

Thrown(name, message) == [ok |-> FALSE, name |-> name, message |-> message]

JsonWebTokenError(message) == Thrown("JsonWebTokenError", message)

\* jws.isValidJws: header and payload segments are non-empty base64url text,
\* the signature segment is base64url text.
IsValidJws(parts) ==
  /\ Len(parts[1]) > 0
  /\ Len(parts[2]) > 0
  /\ \A k \in 1..3 : \A i \in 1..Len(parts[k]) : parts[k][i] \in B64Chars

\* Variant: a ticket still counts as live at the instant of its expiry.
ExpiredStrictlyAfter(clock, exp) == clock > exp

\* The expiry comparison of jwt.verify: clockTimestamp >= payload.exp
Expired(clock, exp) == clock >= exp

\* Variant: the issuer is compared before the expiry.
VerifyClaimsIssuerFirst(payload, issuer, clock) ==
  IF payload.iss # issuer
  THEN JsonWebTokenError("jwt issuer invalid. expected: " \o issuer)
  ELSE IF clock >= payload.exp
  THEN Thrown("TokenExpiredError", "jwt expired")
  ELSE [ok |-> TRUE, payload |-> payload]

\* Variant: the iss claim is not compared with the expected issuer.
VerifyClaimsAnyIssuer(payload, issuer, clock) ==
  IF clock >= payload.exp
  THEN Thrown("TokenExpiredError", "jwt expired")
  ELSE [ok |-> TRUE, payload |-> payload]

\* The claims checks jwt.verify makes once the signature has verified, in
\* its order: exp, then iss.
VerifyClaims(payload, issuer, clock) ==
  IF Expired(clock, payload.exp)
  THEN Thrown("TokenExpiredError", "jwt expired")
  ELSE IF payload.iss # issuer
  THEN JsonWebTokenError("jwt issuer invalid. expected: " \o issuer)
  ELSE [ok |-> TRUE, payload |-> payload]

\* Variant: the token is decoded but its signature is not verified.
VerifySignatureSkipped(parts, header, key, algorithms) == [ok |-> TRUE]

\* The signature step of jwt.verify on a decoded token.
VerifySignature(parts, header, key, algorithms) ==
  IF Len(parts[3]) = 0
  THEN JsonWebTokenError("jwt signature is required")
  ELSE IF header.alg \notin algorithms
  THEN JsonWebTokenError("invalid algorithm")
  ELSE IF ~JwaVerify(header.alg, parts[1] \o <<Dot>> \o parts[2], parts[3], key)
  THEN JsonWebTokenError("invalid signature")
  ELSE [ok |-> TRUE]

\* jwt.verify(token, key, {algorithms, issuer}) at clock time `clock`:
\* either the decoded payload or the error it throws.
JwtVerify(token, key, algorithms, issuer, clock) ==
  IF token.t = "undefined" \/ (token.t = "string" /\ token.s = <<>>)
  THEN JsonWebTokenError("jwt must be provided")
  ELSE IF token.t # "string"
  THEN JsonWebTokenError("jwt must be a string")
  ELSE LET parts == Split(token.s) IN
    IF Len(parts) # 3
    THEN JsonWebTokenError("jwt malformed")
    ELSE IF ~IsValidJws(parts) \/ ~HeaderParses(parts[1])
    THEN JsonWebTokenError("invalid token")
    ELSE IF ~PayloadParses(parts[2])
    THEN Thrown("SyntaxError", "Unexpected token in JSON")
    ELSE LET sig == VerifySignature(parts, DecodeHeader(parts[1]), key, algorithms)
         IN IF ~sig.ok THEN sig
            ELSE VerifyClaims(DecodePayload(parts[2]), issuer, clock)

\* ------------------------------------------------------------ TicketIssuer

\* Default ticket validity: 300 seconds.
DefaultValidity == 3

\* The TicketIssuer instances in play, by the configuration each was
\* constructed with: the authority (HMAC), an authority that signs with RSA,
\* a second authority sharing the HMAC secret under another issuer name, and
\* an instance holding a different secret that names itself the authority.
SuppliedConfig ==
  [hs      |-> [signingKey |-> "secret-1", issuer |-> IssuerNames[1]],
   rs      |-> [signingKey |-> "rsa-1", publicKey |-> "rsa-1.pub",
                algorithm |-> "RS256", issuer |-> IssuerNames[1]],
   sibling |-> [signingKey |-> "secret-1", issuer |-> IssuerNames[2]],
   rogue   |-> [signingKey |-> "secret-2", issuer |-> IssuerNames[1]]]

Issuers == DOMAIN SuppliedConfig

\* constructor: the defaults, overridden by what the configuration supplies.
Config(i) ==
  LET c == SuppliedConfig[i]
      Or(key, default) == IF key \in DOMAIN c THEN c[key] ELSE default
  IN [algorithm       |-> Or("algorithm", "HS256"),
      defaultValidity |-> Or("defaultValidity", DefaultValidity),
      publicKey       |-> Or("publicKey", c.signingKey),
      signingKey      |-> c.signingKey,
      issuer          |-> c.issuer]

\* The payload generateTicket builds at clock time `clock`.
TicketPayload(i, options, clock) ==
  LET validityDuration ==
        IF "validityDuration" \in DOMAIN options
        THEN options.validityDuration ELSE Config(i).defaultValidity
      p == [iss |-> Config(i).issuer,
            sub |-> options.agentId,
            iat |-> clock,
            exp |-> clock + validityDuration,
            audit_level |-> options.auditLevel]
      given == {"constraints", "metadata"} \cap DOMAIN options
  IN [x \in DOMAIN p \cup given |-> IF x \in given THEN options[x] ELSE p[x]]

generateTicket(i, options, clock) ==
  JwtSign(TicketPayload(i, options, clock), Config(i).signingKey, Config(i).algorithm)

\* Variant: a valid result that also carries (empty) error properties.
ValidCarryingError(payload) ==
  [valid |-> TRUE, payload |-> payload, error |-> "", errorCode |-> ""]

\* ValidationResult values.
Valid(payload) == [valid |-> TRUE, payload |-> payload]

Invalid(errorCode, error) == [valid |-> FALSE, error |-> error, errorCode |-> errorCode]

\* The catch block of validateTicket: the error code for a thrown error.
CatchVerifyError(e) ==
  IF e.name = "TokenExpiredError"
  THEN Invalid("EXPIRED", "Ticket has expired")
  ELSE IF e.name = "JsonWebTokenError"
  THEN Invalid("INVALID_SIGNATURE", e.message)
  ELSE Invalid("INVALID_FORMAT", "Invalid ticket format")

\* Reading a property of undefined.
TypeError == Thrown("TypeError", "Cannot read properties of undefined")

\* Variant: the embedded kill switch is not looked at.
KillSwitchIgnored(payload) == FALSE

\* if (decoded.constraints.kill_switch_active)
KillSwitchSet(payload) ==
  /\ "kill_switch_active" \in DOMAIN payload.constraints
  /\ payload.constraints.kill_switch_active

validateTicket(i, token, clock) ==
  LET decoded == JwtVerify(token, Config(i).publicKey, {Config(i).algorithm},
                           Config(i).issuer, clock)
  IN IF ~decoded.ok THEN CatchVerifyError(decoded)
     ELSE IF "constraints" \notin DOMAIN decoded.payload
     THEN CatchVerifyError(TypeError)
     ELSE IF KillSwitchSet(decoded.payload)
     THEN Invalid("KILL_SWITCH", "Agent kill switch is active")
     ELSE Valid(decoded.payload)

\* Variant: a synchronous path that does not look at the kill switch.
validateTicketSyncNoKillSwitch(i, token, clock) ==
  LET decoded == JwtVerify(token, Config(i).publicKey, {Config(i).algorithm},
                           Config(i).issuer, clock)
  IN IF ~decoded.ok THEN CatchVerifyError(decoded)
     ELSE IF "constraints" \notin DOMAIN decoded.payload
     THEN CatchVerifyError(TypeError)
     ELSE Valid(decoded.payload)

validateTicketSync(i, token, clock) ==
  LET decoded == JwtVerify(token, Config(i).publicKey, {Config(i).algorithm},
                           Config(i).issuer, clock)
  IN IF ~decoded.ok THEN CatchVerifyError(decoded)
     ELSE IF "constraints" \notin DOMAIN decoded.payload
     THEN CatchVerifyError(TypeError)
     ELSE IF KillSwitchSet(decoded.payload)
     THEN Invalid("KILL_SWITCH", "Agent kill switch is active")
     ELSE Valid(decoded.payload)

\* An absent (or empty) mcpServer argument.
NoServer == ""

\* Variant: a constraint rejection shaped like the other rejections.
ConstraintViolationBare(error, payload) ==
  [valid |-> FALSE, error |-> error, errorCode |-> "CONSTRAINT_VIOLATION"]

ConstraintViolation(error, payload) ==
  [valid |-> FALSE, error |-> error, errorCode |-> "CONSTRAINT_VIOLATION",
   payload |-> payload]

\* The promise of an async method rejects with the error thrown in its body.
Rejects(e) == [threw |-> TRUE, name |-> e.name, message |-> e.message]

\* Variant: the spending limit is read from the live registry record of the
\* ticket's subject instead of from the ticket.
CheckConstraintsLive(result, transactionValue, mcpServer) ==
  IF ~result.valid THEN result
  ELSE IF transactionValue > registry[result.payload.sub].constraints.max_op_value
  THEN ConstraintViolation("Transaction value exceeds limit", result.payload)
  ELSE IF /\ mcpServer # NoServer
          /\ mcpServer \notin result.payload.constraints.allowed_mcp_servers
  THEN ConstraintViolation(
         "MCP server \"" \o mcpServer \o "\" not in allowed list", result.payload)
  ELSE result

\* Variant: the messages without the dollar signs and the "MCP server" lead.
CheckConstraintsPlainMessages(result, transactionValue, mcpServer) ==
  IF ~result.valid THEN result
  ELSE IF transactionValue > result.payload.constraints.max_op_value
  THEN ConstraintViolation(
         "Transaction value " \o ToString(transactionValue) \o " exceeds limit "
           \o ToString(result.payload.constraints.max_op_value),
         result.payload)
  ELSE IF /\ mcpServer # NoServer
          /\ mcpServer \notin result.payload.constraints.allowed_mcp_servers
  THEN ConstraintViolation(mcpServer \o " not in allowed list", result.payload)
  ELSE result

\* Variant: the server whitelist is consulted before the spending limit.
CheckConstraintsServerFirst(result, transactionValue, mcpServer) ==
  IF ~result.valid THEN result
  ELSE IF /\ mcpServer # NoServer
          /\ mcpServer \notin result.payload.constraints.allowed_mcp_servers
  THEN ConstraintViolation(
         "MCP server \"" \o mcpServer \o "\" not in allowed list", result.payload)
  ELSE IF transactionValue > result.payload.constraints.max_op_value
  THEN ConstraintViolation(
         "Transaction value $" \o ToString(transactionValue) \o " exceeds limit $"
           \o ToString(result.payload.constraints.max_op_value),
         result.payload)
  ELSE result

\* The constraint rules of validateTransaction, applied to the result of
\* validateTicket.
CheckConstraints(result, transactionValue, mcpServer) ==
  IF ~result.valid THEN result
  ELSE IF /\ "max_op_value" \in DOMAIN result.payload.constraints
          /\ transactionValue > result.payload.constraints.max_op_value
  THEN ConstraintViolation(
         "Transaction value $" \o ToString(transactionValue) \o " exceeds limit $"
           \o ToString(result.payload.constraints.max_op_value),
         result.payload)
  ELSE IF mcpServer = NoServer
  THEN result
  ELSE IF "allowed_mcp_servers" \notin DOMAIN result.payload.constraints
  THEN Rejects(TypeError)
  ELSE IF mcpServer \notin result.payload.constraints.allowed_mcp_servers
  THEN ConstraintViolation(
         "MCP server \"" \o mcpServer \o "\" not in allowed list", result.payload)
  ELSE result

validateTransaction(i, token, transactionValue, mcpServer, clock) ==
  CheckConstraints(validateTicket(i, token, clock), transactionValue, mcpServer)

\* ----------------------------------------------------------- AgentRegistry

\* seedDemoAgents: the two demo agents of the in-memory registry.
\* uptime_percentage is held in tenths of a percent (99.8 is 998) and
\* error_rate in thousandths (0.002 is 2); expires_at is in time units from
\* the start (a day is 864 units); the other numbers are as in the source.
SeedAgents ==
  [a \in {AgentIds[1], AgentIds[2]} |->
     IF a = AgentIds[1]
     THEN [agentId |-> a, auditLevel |-> "Gold", trustScore |-> 85,
           organization |-> "Acme AI Corp", killSwitchActive |-> FALSE,
           metadata |-> [name |-> "Finance Agent Alpha",
                         capabilities |-> {"trading", "portfolio-analysis",
                                           "risk-assessment"},
                         verified_domain |-> "acmeai.com"],
           certification |-> [mva_level |-> 5, expires_at |-> 335 * 864],
           health |-> [uptime_percentage |-> 998, avg_latency_ms |-> 120,
                       error_rate |-> 2, total_transactions |-> 15420],
           constraints |-> [max_op_value |-> 100,
                            allowed_mcp_servers |-> ServerLists[4]]]
     ELSE [agentId |-> a, auditLevel |-> "Silver", trustScore |-> 68,
           organization |-> "Beta Bots Inc", killSwitchActive |-> FALSE,
           metadata |-> [name |-> "Customer Service Bot",
                         capabilities |-> {"customer-support", "ticket-management",
                                           "sentiment-analysis"}],
           certification |-> [mva_level |-> 3, expires_at |-> 350 * 864],
           health |-> [uptime_percentage |-> 985, avg_latency_ms |-> 250,
                       error_rate |-> 12, total_transactions |-> 8920],
           constraints |-> [max_op_value |-> 10,
                            allowed_mcp_servers |-> ServerLists[5]]]]

\* Variant: the kill switch only zeroes the spending limit on file.
activateKillSwitchLimitOnly(reg, agentId) ==
  IF agentId \in DOMAIN reg
  THEN [reg EXCEPT ![agentId].constraints.max_op_value = 0]
  ELSE reg

\* registry.activateKillSwitch(agentId)
activateKillSwitch(reg, agentId) ==
  IF agentId \in DOMAIN reg
  THEN [reg EXCEPT ![agentId].killSwitchActive = TRUE,
                   ![agentId].constraints.max_op_value = 0]
  ELSE reg

\* registry.updateAgent(agentId, updates): { ...agent, ...updates }
updateAgent(reg, agentId, updates) ==
  IF agentId \in DOMAIN reg
  THEN [reg EXCEPT ![agentId] =
          [x \in DOMAIN reg[agentId] \cup DOMAIN updates |->
             IF x \in DOMAIN updates THEN updates[x] ELSE reg[agentId][x]]]
  ELSE reg

\* The result of getAgent or getAgentRecord for an id the store does not hold.
NoAgent == [agentId |-> "none"]

\* registry.getAgent(agentId)
getAgent(reg, agentId) == IF agentId \in DOMAIN reg THEN reg[agentId] ELSE NoAgent

\* Variant: the record is mapped without the kill switch flag of its row.
getAgentRecordFlagDropped(reg, agentId) ==
  IF agentId \in DOMAIN reg
  THEN [reg[agentId] EXCEPT !.killSwitchActive = FALSE]
  ELSE [agentId |-> "none"]

\* getAgentRecord(agentId) of the database-backed server, applied to the rows
\* the query returned: the transaction count is not stored and reads 0.
getAgentRecord(reg, agentId) ==
  IF agentId \in DOMAIN reg
  THEN LET row == [reg[agentId] EXCEPT !.health.total_transactions = 0]
       IN [x \in DOMAIN row \cup {"constraints"} |->
             IF x # "constraints" THEN row[x]
             ELSE IF "constraints" \in DOMAIN row THEN row.constraints
             ELSE [max_op_value |-> 0, allowed_mcp_servers |-> {}]]
  ELSE NoAgent

\* The order in which the store lists its agents: a sequence of the ids on
\* file without repetition.
Listings(reg) ==
  {order \in [1..Cardinality(DOMAIN reg) -> DOMAIN reg] :
     \A i, j \in 1..Cardinality(DOMAIN reg) : order[i] = order[j] => i = j}

\* registry.getAllAgents(): the agents in the order they were put on file.
getAllAgents(reg) ==
  CHOOSE order \in Listings(reg) :
    \A i, j \in DOMAIN order :
      (i < j /\ order[j] = AgentIds[1]) => order[i] = AgentIds[1]

\* ------------------------------------------------------------- trust scoring

Max(a, b) == IF a > b THEN a ELSE b

Min(a, b) == IF a < b THEN a ELSE b

\* Math.round(n / d) for n >= 0, d > 0.
Round(n, d) == (2 * n + d) \div (2 * d)

\* trustScore values: 0-100.
MaxScore == 100

\* Variant: approve only above 80.
RecommendationAbove80(trustScore) ==
  IF trustScore > 80 THEN "approve"
  ELSE IF trustScore >= 60 THEN "review"
  ELSE "reject"

\* agent.trustScore >= 80 ? 'approve' : agent.trustScore >= 60 ? 'review' : 'reject'
Recommendation(trustScore) ==
  IF trustScore >= 80 THEN "approve"
  ELSE IF trustScore >= 60 THEN "review"
  ELSE "reject"

\* The four rounded factors.  healthScore is
\*   uptime * 0.4 + (1 - error_rate) * 100 * 0.3 + max(0, 100 - latency / 5) * 0.3,
\* computed here in hundredths.
Factors(agent) ==
  [certification |->
     IF agent.killSwitchActive THEN 0
     ELSE Round(agent.certification.mva_level * 100, 5),
   behavioral_health |->
     Round(4 * agent.health.uptime_percentage
             + 3 * (1000 - agent.health.error_rate)
             + Max(0, 3000 - 6 * agent.health.avg_latency_ms), 100),
   transaction_history |-> Round(Min(10000, agent.health.total_transactions), 100),
   domain_verification |->
     IF "verified_domain" \in DOMAIN agent.metadata THEN 100 ELSE 50]

\* Variant: an unknown agent gets the domain factor of an unverified domain.
UnknownAgentScoreUnverified(agentId) ==
  [agentId |-> agentId, score |-> 0, level |-> "None",
   factors |-> [certification |-> 0, behavioral_health |-> 0,
                transaction_history |-> 0, domain_verification |-> 50],
   recommendation |-> "reject"]

\* The output for an agent the store does not hold.
UnknownAgentScore(agentId) ==
  [agentId |-> agentId, score |-> 0, level |-> "None",
   factors |-> [certification |-> 0, behavioral_health |-> 0,
                transaction_history |-> 0, domain_verification |-> 0],
   recommendation |-> "reject"]

\* Variant: the score is the mean of the four factors.
TrustScoreFromFactors(agent) ==
  LET f == Factors(agent)
      mean == Round(f.certification + f.behavioral_health
                      + f.transaction_history + f.domain_verification, 4)
  IN [agentId |-> agent.agentId, score |-> mean, level |-> agent.auditLevel,
      factors |-> f, recommendation |-> Recommendation(mean)]

\* The TrustScore object.
TrustScoreOf(agent) ==
  [agentId |-> agent.agentId, score |-> agent.trustScore, level |-> agent.auditLevel,
   factors |-> Factors(agent), recommendation |-> Recommendation(agent.trustScore)]

WithDetails(trustScore, details) ==
  [x \in DOMAIN trustScore \cup {"details"} |->
     IF x = "details" THEN details ELSE trustScore[x]]


\* The handler of get_trust_score of the in-memory server, from the agent
\* record on.
get_trust_score(agent, args) ==
  IF agent = NoAgent THEN UnknownAgentScore(args.agentId)
  ELSE IF "includeHealth" \in DOMAIN args /\ args.includeHealth
  THEN WithDetails(TrustScoreOf(agent), agent.health)
  ELSE TrustScoreOf(agent)

\* The handler of get_trust_score of the database-backed server, from the
\* agent record on.
get_trust_score_db(agent, args) ==
  IF agent = NoAgent THEN UnknownAgentScore(args.agentId)
  ELSE WithDetails(TrustScoreOf(agent),
                   IF "includeHealth" \in DOMAIN args /\ args.includeHealth
                   THEN agent.health ELSE Undefined)

\* ----------------------------------------------- certification and queries

\* The handler of is_agent_certified (the same in both servers), from the
\* agent record on.
is_agent_certified(agent, args, clock) ==
  IF agent = NoAgent THEN [certified |-> FALSE, agentId |-> args.agentId]
  ELSE [certified |-> agent.certification.expires_at > clock
                        /\ ~agent.killSwitchActive,
        agentId |-> agent.agentId, auditLevel |-> agent.auditLevel,
        expiresAt |-> agent.certification.expires_at,
        killSwitchActive |-> agent.killSwitchActive]

\* An optional argument, with what stands for it when it is not given.
Arg(args, key, default) == IF key \in DOMAIN args THEN args[key] ELSE default

\* What query_agents reports of an agent.
QueryResult(agent) ==
  [agentId |-> agent.agentId, organization |-> agent.organization,
   auditLevel |-> agent.auditLevel, trustScore |-> agent.trustScore,
   capabilities |-> agent.metadata.capabilities]

\* The trust score, audit level and capabilities filters of query_agents.
MatchesScoreAndLevel(agent, args) ==
  /\ Arg(args, "minTrustScore", 0) > 0 => agent.trustScore >= args.minTrustScore
  /\ "auditLevel" \in DOMAIN args => agent.auditLevel = args.auditLevel

MatchesCapabilities(agent, args) ==
  Arg(args, "capabilities", {}) \subseteq agent.metadata.capabilities

\* agents.filter((a) => !a.killSwitchActive)
Listed(agent) == ~agent.killSwitchActive

\* The handler of query_agents of the in-memory server, over the agents in
\* the order `order`.
query_agents(reg, order, args) ==
  LET Keep(id) == /\ MatchesScoreAndLevel(reg[id], args)
                  /\ MatchesCapabilities(reg[id], args)
                  /\ Listed(reg[id])
      agents == SelectSeq(order, Keep)
      limit == Arg(args, "limit", 10)
  IN [results |-> [i \in 1..Min(limit, Len(agents)) |-> QueryResult(reg[agents[i]])],
      total |-> Len(agents)]

\* The handler of query_agents of the database-backed server, the rows
\* coming from the database in the order `order`: the score and level
\* conditions and the limit are part of the query, the capabilities are
\* filtered afterwards.
query_agents_db(reg, order, args) ==
  LET Where(id) == MatchesScoreAndLevel(reg[id], args)
      matching == SelectSeq(order, Where)
      limit == IF Arg(args, "limit", 0) # 0 THEN args.limit ELSE 10
      allAgents == SubSeq(matching, 1, Min(limit, Len(matching)))
      Caps(id) == MatchesCapabilities(reg[id], args)
      results == SelectSeq(allAgents, Caps)
  IN [results |-> [i \in 1..Len(results) |-> QueryResult(reg[results[i]])],
      total |-> Len(results)]

\* ------------------------------------------------------------ initial state

NoTicket == [token |-> Undefined, by |-> "none", via |-> "none"]

NoCall == [op |-> "none"]

Init ==
  /\ now = 0
  /\ registry = SeedAgents
  /\ ticket = NoTicket
  /\ last = NoCall
  /\ expiredBy = {}
  /\ noted = NoCall
  /\ peer = NoCall

\* ------------------------------------------------------------------- issuing

\* The options direct callers of generateTicket pass (Scenario A and the
\* kill-switch test of the x402 example, for either demo agent).
GenOptions ==
  { [agentId |-> a, auditLevel |-> "Platinum",
     constraints |-> [max_op_value |-> 50, allowed_mcp_servers |-> ServerLists[2],
                      kill_switch_active |-> k]] :
      a \in {AgentIds[1], AgentIds[2]}, k \in BOOLEAN }

WithValidity(options, v) ==
  [x \in DOMAIN options \cup {"validityDuration"} |->
     IF x = "validityDuration" THEN v ELSE options[x]]

\* A caller invokes issuer.generateTicket(options).
GenerateTicket(i, options) ==
  /\ last = NoCall
  /\ ticket' = [token |-> generateTicket(i, options, now), by |-> i,
                via |-> "generateTicket", at |-> now, options |-> options,
                signed |-> TicketPayload(i, options, now)]
  /\ last' = [op |-> "generateTicket", by |-> i, options |-> options]
  /\ expiredBy' = {}
  /\ UNCHANGED <<now, registry, noted, peer>>

\* The issuer instance the MCP server was created with.
ServerIssuer == "hs"

\* validitySeconds = 300: the default of the issue_audit_ticket tool.
ToolDefaultValidity == 3

\* The arguments callers pass to issue_audit_ticket.
IssueArgs ==
  LET ids == {AgentIds[1], AgentIds[2], "agent-00000"}
  IN {[agentId |-> a] : a \in ids}
       \cup {[agentId |-> a, validitySeconds |-> 1] : a \in ids}

ToolResult(op, args, output) == [op |-> op, args |-> args, output |-> output]

\* Tool issue_audit_ticket of the in-memory server.
IssueAuditTicket(args) ==
  LET agentId == args.agentId
      validitySeconds == IF "validitySeconds" \in DOMAIN args
                         THEN args.validitySeconds ELSE ToolDefaultValidity
  IN
  /\ last = NoCall
  /\ IF agentId \notin DOMAIN registry
     THEN /\ last' = ToolResult("issue_audit_ticket", args,
                       [success |-> FALSE, agentId |-> agentId,
                        error |-> "Agent not found in registry"])
          /\ UNCHANGED <<ticket, expiredBy>>
     ELSE IF registry[agentId].killSwitchActive
     THEN /\ last' = ToolResult("issue_audit_ticket", args,
                       [success |-> FALSE, agentId |-> agentId,
                        error |-> "Agent kill switch is active"])
          /\ UNCHANGED <<ticket, expiredBy>>
     ELSE LET agent == registry[agentId]
              options ==
                [agentId |-> agent.agentId, auditLevel |-> agent.auditLevel,
                 constraints |->
                   [max_op_value |-> agent.constraints.max_op_value,
                    allowed_mcp_servers |-> agent.constraints.allowed_mcp_servers,
                    kill_switch_active |-> FALSE],
                 validityDuration |-> validitySeconds,
                 metadata |-> [organization |-> agent.organization,
                               trust_score |-> agent.trustScore]]
          IN /\ ticket' = [token |-> generateTicket(ServerIssuer, options, now),
                           by |-> ServerIssuer, via |-> "issue_audit_ticket",
                           at |-> now, options |-> options,
                           signed |-> TicketPayload(ServerIssuer, options, now)]
             /\ last' = ToolResult("issue_audit_ticket", args,
                          [success |-> TRUE,
                           ticket |-> generateTicket(ServerIssuer, options, now),
                           agentId |-> agent.agentId,
                           expiresIn |-> validitySeconds])
             /\ expiredBy' = {}
  /\ UNCHANGED <<now, registry, noted, peer>>

\* Tool activate_kill_switch of the in-memory server.
ActivateKillSwitch(agentId) ==
  /\ last = NoCall
  /\ registry' = activateKillSwitch(registry, agentId)
  /\ last' = ToolResult("activate_kill_switch", [agentId |-> agentId],
                [success |-> agentId \in DOMAIN registry, agentId |-> agentId])
  /\ UNCHANGED <<now, ticket, expiredBy, noted, peer>>

\* A get_trust_score call that has returned: the record the handler read and
\* the structuredContent it returned.
ScoreResult(server, args, agent, output) ==
  [op |-> "get_trust_score", server |-> server, args |-> args, agent |-> agent,
   output |-> output]

\* The arguments callers pass to get_trust_score.
ScoreArgs ==
  LET ids == {AgentIds[1], AgentIds[2], "agent-00000"}
  IN {[agentId |-> a] : a \in ids}
       \cup {[agentId |-> a, includeHealth |-> TRUE] : a \in ids}

\* Tool get_trust_score of the in-memory server.
GetTrustScore(args) ==
  /\ last = NoCall
  /\ last' = ScoreResult("memory", args, getAgent(registry, args.agentId),
                get_trust_score(getAgent(registry, args.agentId), args))
  /\ UNCHANGED <<now, registry, ticket, expiredBy, noted, peer>>

\* Later certification and health readings of an agent.
AgentUpdates ==
  { [certification |-> [mva_level |-> 1, expires_at |-> 335 * 864]],
    [health |-> [uptime_percentage |-> 900, avg_latency_ms |-> 600,
                 error_rate |-> 100, total_transactions |-> 4250]] }

\* The operator of the registry records new readings of an agent.
UpdateAgent(agentId, updates) ==
  /\ last = NoCall
  /\ registry' = updateAgent(registry, agentId, updates)
  /\ registry' # registry
  /\ UNCHANGED <<now, ticket, last, expiredBy, noted, peer>>

\* The caller keeps the get_trust_score result it received, to compare the
\* results for later snapshots with it.
KeepScore ==
  /\ last.op = "get_trust_score"
  /\ last.agent # NoAgent
  /\ "includeHealth" \notin DOMAIN last.args
  /\ noted' = last
  /\ last' = NoCall
  /\ UNCHANGED <<now, registry, ticket, expiredBy, peer>>

\* A tool call of the in-memory server that has returned.
MemToolResult(op, args, output) ==
  [op |-> op, server |-> "memory", args |-> args, output |-> output]

\* Tool is_agent_certified of the in-memory server.
IsAgentCertified(args) ==
  /\ last = NoCall
  /\ last' = MemToolResult("is_agent_certified", args,
                is_agent_certified(getAgent(registry, args.agentId), args, now))
  /\ UNCHANGED <<now, registry, ticket, expiredBy, noted, peer>>

\* The arguments callers pass to query_agents.
QueryArgs ==
  { <<>>, [minTrustScore |-> 80], [auditLevel |-> "Gold"],
    [capabilities |-> {"trading"}], [limit |-> 1],
    [minTrustScore |-> 60, limit |-> 1] }

\* Tool query_agents of the in-memory server.
QueryAgents(args) ==
  /\ last = NoCall
  /\ last' = MemToolResult("query_agents", args,
                query_agents(registry, getAllAgents(registry), args))
  /\ UNCHANGED <<now, registry, ticket, expiredBy, noted, peer>>

\* The operator keeps the confirmation of an activate_kill_switch call that
\* reported success.
KeepKillSwitch ==
  /\ last.op = "activate_kill_switch"
  /\ last.output.success
  /\ noted' = last
  /\ last' = NoCall
  /\ UNCHANGED <<now, registry, ticket, expiredBy, peer>>

\* ---------------------------------------------- the database-backed server

\* A tool handler of the database-backed server has sent its query and
\* awaits the answer.
DbQuery(tool, args) ==
  /\ last = NoCall
  /\ last' = [op |-> "pending", tool |-> tool, args |-> args]
  /\ UNCHANGED <<now, registry, ticket, expiredBy, noted, peer>>

\* Tool get_trust_score of the database-backed server, up to the await.
GetTrustScoreDb(args) == DbQuery("get_trust_score", args)

\* Tool issue_audit_ticket of the database-backed server, up to the await.
IssueAuditTicketDb(args) == DbQuery("issue_audit_ticket", args)

\* Tool activate_kill_switch of the database-backed server, up to the await.
ActivateKillSwitchDb(args) == DbQuery("activate_kill_switch", args)

DbToolResult(op, args, output) ==
  [op |-> op, server |-> "database", args |-> args, output |-> output]

\* The database answers the query of get_trust_score and the handler runs
\* to its end.
TrustScoreDbAnswered ==
  /\ last.op = "pending"
  /\ last.tool = "get_trust_score"
  /\ last' = ScoreResult("database", last.args,
                getAgentRecord(registry, last.args.agentId),
                get_trust_score_db(getAgentRecord(registry, last.args.agentId),
                                   last.args))
  /\ UNCHANGED <<now, registry, ticket, expiredBy, noted, peer>>

\* The database answers the query of issue_audit_ticket and the handler
\* runs to its end.
IssueDbAnswered ==
  LET args == last.args
      agent == IF "row" \in DOMAIN last THEN last.row
               ELSE getAgentRecord(registry, args.agentId)
  IN
  /\ last.op = "pending"
  /\ last.tool = "issue_audit_ticket"
  /\ IF agent = NoAgent
     THEN /\ last' = DbToolResult("issue_audit_ticket", args,
                       [success |-> FALSE, agentId |-> args.agentId,
                        error |-> "Agent not found"])
          /\ UNCHANGED <<ticket, expiredBy>>
     ELSE IF agent.killSwitchActive
     THEN /\ last' = DbToolResult("issue_audit_ticket", args,
                       [success |-> FALSE, agentId |-> args.agentId,
                        error |-> "Agent kill switch active"])
          /\ UNCHANGED <<ticket, expiredBy>>
     ELSE LET given == [agentId |-> agent.agentId, auditLevel |-> agent.auditLevel,
                        constraints |-> agent.constraints]
              options ==
                IF "validitySeconds" \in DOMAIN args
                THEN [x \in DOMAIN given \cup {"validitySeconds"} |->
                        IF x = "validitySeconds" THEN args.validitySeconds
                        ELSE given[x]]
                ELSE given
          IN /\ ticket' = [token |-> generateTicket(ServerIssuer, options, now),
                           by |-> ServerIssuer, via |-> "issue_audit_ticket",
                           at |-> now, options |-> options,
                           signed |-> TicketPayload(ServerIssuer, options, now)]
             /\ last' = DbToolResult("issue_audit_ticket", args,
                          [success |-> TRUE,
                           ticket |-> generateTicket(ServerIssuer, options, now),
                           agentId |-> args.agentId,
                           expiresIn |->
                             IF "validitySeconds" \in DOMAIN args
                                  /\ args.validitySeconds # 0
                             THEN args.validitySeconds ELSE ToolDefaultValidity])
             /\ expiredBy' = {}
  /\ UNCHANGED <<now, registry, noted, peer>>

\* The database has carried out the update of activate_kill_switch and the
\* handler runs to its end.
KillSwitchDbAnswered ==
  /\ last.op = "pending"
  /\ last.tool = "activate_kill_switch"
  /\ registry' = IF last.args.agentId \in DOMAIN registry
                 THEN [registry EXCEPT ![last.args.agentId].killSwitchActive = TRUE]
                 ELSE registry
  /\ last' = DbToolResult("activate_kill_switch", last.args,
                [success |-> TRUE, agentId |-> last.args.agentId,
                 reason |-> last.args.reason])
  /\ UNCHANGED <<now, ticket, expiredBy, noted, peer>>

\* The database executes the query of getAgentRecord: the row it read is on
\* its way to the handler, which has not resumed yet.
DbReadsRow ==
  /\ last.op = "pending"
  /\ last.tool = "issue_audit_ticket"
  /\ "row" \notin DOMAIN last
  /\ last' = [op |-> "pending", tool |-> last.tool, args |-> last.args,
              row |-> getAgentRecord(registry, last.args.agentId)]
  /\ UNCHANGED <<now, registry, ticket, expiredBy, noted, peer>>

\* Tool is_agent_certified of the database-backed server, up to the await.
IsAgentCertifiedDb(args) == DbQuery("is_agent_certified", args)

\* The database answers the query of is_agent_certified and the handler
\* runs to its end.
CertifiedDbAnswered ==
  /\ last.op = "pending"
  /\ last.tool = "is_agent_certified"
  /\ last' = DbToolResult("is_agent_certified", last.args,
                is_agent_certified(getAgentRecord(registry, last.args.agentId),
                                   last.args, now))
  /\ UNCHANGED <<now, registry, ticket, expiredBy, noted, peer>>

\* Tool query_agents of the database-backed server, up to the await.
QueryAgentsDb(args) == DbQuery("query_agents", args)

\* The database answers the query of query_agents, the rows in an order of
\* its choosing, and the handler runs to its end.
QueryDbAnswered ==
  /\ last.op = "pending"
  /\ last.tool = "query_agents"
  /\ \E order \in Listings(registry) :
       last' = DbToolResult("query_agents", last.args,
                 query_agents_db(registry, order, last.args))
  /\ UNCHANGED <<now, registry, ticket, expiredBy, noted, peer>>

\* A second client calls activate_kill_switch of the database-backed server
\* while the first client's call may be in flight.
PeerActivateKillSwitchDb(args) ==
  /\ peer = NoCall
  /\ peer' = [op |-> "pending", tool |-> "activate_kill_switch", args |-> args]
  /\ UNCHANGED <<now, registry, ticket, last, expiredBy, noted>>

\* The database has carried out the second client's update and its handler
\* runs to its end.
PeerKillSwitchDbAnswered ==
  /\ peer.op = "pending"
  /\ registry' = IF peer.args.agentId \in DOMAIN registry
                 THEN [registry EXCEPT ![peer.args.agentId].killSwitchActive = TRUE]
                 ELSE registry
  /\ peer' = DbToolResult("activate_kill_switch", peer.args,
                [success |-> TRUE, agentId |-> peer.args.agentId,
                 reason |-> peer.args.reason])
  /\ UNCHANGED <<now, ticket, last, expiredBy, noted>>

\* The second client takes the result of its call.
PeerReturn ==
  /\ peer # NoCall
  /\ peer.op # "pending"
  /\ peer' = NoCall
  /\ UNCHANGED <<now, registry, ticket, last, expiredBy, noted>>

DbError == Thrown("Error", "connect ECONNREFUSED")

\* The database is unavailable: the awaited query rejects and, no handler
\* catching it, so does the handler.
DbRejected ==
  /\ last.op = "pending"
  /\ last' = [op |-> "rejected", tool |-> last.tool, args |-> last.args,
              result |-> Rejects(DbError)]
  /\ UNCHANGED <<now, registry, ticket, expiredBy, noted, peer>>

\* ------------------------------------------------------- the AI middleware

\* Money is held in units of $0.00001; the default cost per token is one unit.
DefaultCostPerToken == 1

\* const COST_PER_TOKEN = options.costPerToken || 0.00001
COST_PER_TOKEN(options) ==
  IF "costPerToken" \in DOMAIN options /\ options.costPerToken # 0
  THEN options.costPerToken ELSE DefaultCostPerToken

\* const totalTokens = result.usage.totalTokens || 0
TotalTokens(result) ==
  IF "totalTokens" \in DOMAIN result.usage THEN result.usage.totalTokens ELSE 0

\* const estimatedCost = totalTokens * COST_PER_TOKEN
EstimatedCost(options, result) == TotalTokens(result) * COST_PER_TOKEN(options)

\* What wrapGenerate does with the awaited generation: what it writes to the
\* console and what it gives to its caller.
wrapGenerate(options, generation) ==
  IF "threw" \in DOMAIN generation
  THEN [console |-> <<"requesting generation">>, result |-> generation]
  ELSE [console |->
          <<"requesting generation", "Cost">>
            \o (IF EstimatedCost(options, generation) > options.maxOpValue
                THEN <<"VIOLATION">> ELSE <<>>),
        result |-> generation]

\* What wrapStream does with the awaited stream: every chunk is passed on.
wrapStream(options, streamed) ==
  IF "threw" \in DOMAIN streamed
  THEN [console |-> <<"starting stream">>, result |-> streamed]
  ELSE [console |-> <<"starting stream", "Stream completed">>,
        result |-> [streamed EXCEPT
                      !.stream = [i \in DOMAIN streamed.stream |-> streamed.stream[i]]]]

\* The options a middleware is created with.
AiOptions ==
  LET given == { [issuer |-> ServerIssuer, agentId |-> AgentIds[1],
                  auditLevel |-> "Gold", maxOpValue |-> m] : m \in {0, 10, 100} }
  IN given \cup { [x \in DOMAIN o \cup {"costPerToken"} |->
                     IF x = "costPerToken" THEN c ELSE o[x]] :
                  o \in given, c \in {0, 2, 5} }

ProviderError == Thrown("APICallError", "provider unavailable")

\* What the wrapped model's doGenerate resolves to, or rejects with.
Generations ==
  { [text |-> "ok", usage |-> [totalTokens |-> n]] : n \in {0, 5, 10, 50, 100} }
    \cup { [text |-> "ok", usage |-> [inputTokens |-> 3]], Rejects(ProviderError) }

\* What the wrapped model's doStream resolves to, or rejects with.
Streams ==
  { [stream |-> chunks, rawCall |-> "call"] :
      chunks \in {<<>>, <<"He">>, <<"He", "llo">>} }
    \cup { Rejects(ProviderError) }

\* The AI SDK calls middleware.wrapGenerate for a generation.
WrapGenerate(options, generation) ==
  /\ last = NoCall
  /\ last' = [op |-> "wrapGenerate", options |-> options, generation |-> generation,
              console |-> wrapGenerate(options, generation).console,
              result |-> wrapGenerate(options, generation).result]
  /\ UNCHANGED <<now, registry, ticket, expiredBy, noted, peer>>

\* The AI SDK calls middleware.wrapStream for a streamed generation.
WrapStream(options, streamed) ==
  /\ last = NoCall
  /\ last' = [op |-> "wrapStream", options |-> options, streamed |-> streamed,
              console |-> wrapStream(options, streamed).console,
              result |-> wrapStream(options, streamed).result]
  /\ UNCHANGED <<now, registry, ticket, expiredBy, noted, peer>>

\* The wall clock advances.
Tick ==
  /\ last = NoCall
  /\ now < MaxTime
  /\ now' = now + 1
  /\ UNCHANGED <<registry, ticket, last, expiredBy, noted, peer>>

\* The caller takes the result of the call that has returned.
Return ==
  /\ last # NoCall
  /\ last.op # "pending"
  /\ last' = NoCall
  /\ UNCHANGED <<now, registry, ticket, expiredBy, noted, peer>>

\* The caller keeps the validateTransaction result it received, with the
\* time of the call, to compare later results of the same call with it.
KeepResult ==
  /\ last.op = "validateTransaction"
  /\ noted' = [by |-> last.by, token |-> last.token, value |-> last.value,
               mcpServer |-> last.mcpServer, result |-> last.result, at |-> now]
  /\ last' = NoCall
  /\ UNCHANGED <<now, registry, ticket, expiredBy, peer>>

\* ---------------------------------------------------------------- validating

\* The token with the character at position pos replaced by c.
Altered(token, pos, c) == Str([token.s EXCEPT ![pos] = c])

\* Positions of the characters of the payload and signature segments.
BodyPositions(token) ==
  LET s == token.s
      d == CHOOSE i \in 1..Len(s) : s[i] = Dot /\ \A j \in 1..(i - 1) : s[j] # Dot
  IN {i \in (d + 1)..Len(s) : s[i] # Dot}

\* Copies of the followed ticket with one byte of the payload or signature
\* segment changed in transit.
AlteredTickets ==
  IF ticket = NoTicket THEN {}
  ELSE {Altered(ticket.token, pos, c) :
          pos \in BodyPositions(ticket.token), c \in Alphabet} \ {ticket.token}

\* Tokens that are not three decodable segments, or not a string.
MalformedTokens ==
  {NotAString, Undefined, Str(<<>>), Str(<<"A">>), Str(<<"A", Dot, "B">>),
   Str(<<"A", Dot, "B", Dot, "C", Dot, "D">>),
   Str(<<NonB64, Dot, "B", Dot, "C">>),
   Str(<<JsonBreak, Dot, "B", Dot, "C">>),
   Str(<<"A", Dot, "B", Dot, "C">>)}

\* The followed ticket as issued, and the malformed tokens.
PlainTokens ==
  (IF ticket = NoTicket THEN {} ELSE {ticket.token}) \cup MalformedTokens

\* The followed ticket has been reported EXPIRED by issuer i.
NoteExpired(i, token, result) ==
  expiredBy' = IF /\ token = ticket.token
                  /\ "threw" \notin DOMAIN result
                  /\ ~result.valid
                  /\ result.errorCode = "EXPIRED"
               THEN expiredBy \cup {i} ELSE expiredBy

\* A caller awaits issuer.validateTicket(token).
ValidateTicket(i, token) ==
  LET result == validateTicket(i, token, now) IN
  /\ last = NoCall
  /\ last' = [op |-> "validateTicket", by |-> i, token |-> token, result |-> result]
  /\ NoteExpired(i, token, result)
  /\ UNCHANGED <<now, registry, ticket, noted, peer>>

\* A caller invokes issuer.validateTicketSync(token).
ValidateTicketSync(i, token) ==
  LET result == validateTicketSync(i, token, now) IN
  /\ last = NoCall
  /\ last' = [op |-> "validateTicketSync", by |-> i, token |-> token,
              result |-> result]
  /\ NoteExpired(i, token, result)
  /\ UNCHANGED <<now, registry, ticket, noted, peer>>

\* A caller awaits issuer.validateTransaction(token, value, mcpServer).
ValidateTransaction(i, token, value, mcpServer) ==
  LET result == validateTransaction(i, token, value, mcpServer, now) IN
  /\ last = NoCall
  /\ last' = [op |-> "validateTransaction", by |-> i, token |-> token,
              value |-> value, mcpServer |-> mcpServer, result |-> result]
  /\ NoteExpired(i, token, result)
  /\ UNCHANGED <<now, registry, ticket, noted, peer>>

\* Transaction values and target servers callers declare.
TxValues == {25, 50, 75}

TxServers == {NoServer, "finance-node", "legal-node"}

\* ---------------------------------------------------------------- trust proxy

\* Request bodies: JSON objects whose leaves carry a number or a string.
JNum(n) == [t |-> "number", n |-> n]

JText(x) == [t |-> "text", x |-> x]

JObject(fields) == [t |-> "object", fields |-> fields]

JUndefined == [t |-> "undefined"]

\* getNestedProperty(obj, path), the path given as its dot-separated keys:
\* path.split('.').reduce((current, key) => current?.[key], obj)
RECURSIVE getNestedProperty(_, _)
getNestedProperty(obj, path) ==
  IF path = <<>> THEN obj
  ELSE IF obj.t = "object" /\ Head(path) \in DOMAIN obj.fields
  THEN getNestedProperty(obj.fields[Head(path)], Tail(path))
  ELSE JUndefined

\* Variant: every header value counts as a proof.
NeverFalsy(token) == FALSE

\* !proofToken
Falsy(token) == token.t = "undefined" \/ (token.t = "string" /\ token.s = <<>>)

\* value || fallback, for a property of a validation result
OrElse(result, key, fallback) ==
  IF key \in DOMAIN result /\ result[key] # "" THEN result[key] ELSE fallback

TrustProxyError(message, statusCode, errorCode) ==
  [message |-> message, statusCode |-> statusCode, errorCode |-> errorCode]

\* What one run of the middleware has done: the responses it wrote, the
\* calls of next(), onError and onSuccess it made, what it attached to the
\* request, the validation result it obtained, and whether it threw.
NoAsoc == [attached |-> FALSE]

Outcome0 ==
  [responses |-> <<>>, next |-> 0, asoc |-> NoAsoc, onErrorCalls |-> <<>>,
   onSuccessCalls |-> 0, threw |-> FALSE, validated |-> FALSE]

Payment402Response ==
  [error |-> "Payment Required", code |-> 402,
   message |-> "X-ASOC-Proof header required for agent transaction",
   payment_context |->
     [required_proof |-> "X-ASOC-Proof",
      issuer_endpoint |-> "https://asoc-authority.com/issue-ticket",
      documentation |-> "https://docs.asoc.dev/x402-handshake"]]

Forbidden403Response(result) ==
  [error |-> "Forbidden", code |-> 403,
   message |-> "Agent certification validation failed",
   reason |-> OrElse(result, "error", "Unknown error"),
   error_code |-> OrElse(result, "errorCode", "VALIDATION_FAILED")]

InternalError500Response ==
  [error |-> "Internal Server Error", code |-> 500,
   message |-> "Trust validation system error"]

\* The catch block: a fault inside the try block, after `out` was done.
CatchBlock(config, out) ==
  IF config.onError # "none"
  THEN [out EXCEPT
          !.onErrorCalls = Append(@, TrustProxyError("Internal trust proxy error",
                                                      500, "INTERNAL_ERROR")),
          !.threw = (config.onError = "throws")]
  ELSE [out EXCEPT !.responses = Append(@, InternalError500Response)]

\* The validation call the middleware makes for a request carrying a proof.
ProxyValidation(config, req, clock) ==
  LET transactionValue == getNestedProperty(req.body, config.transactionValuePath)
      mcpServer == getNestedProperty(req.body, config.mcpServerPath)
  IN IF config.validateTransactionValue /\ transactionValue.t # "undefined"
     THEN validateTransaction(config.issuer, req.proof, transactionValue.n,
            IF mcpServer.t = "undefined" THEN NoServer ELSE mcpServer.x, clock)
     ELSE validateTicket(config.issuer, req.proof, clock)

\* Variant: the success callback is never called.
HandleResultNoCallback(config, result) ==
  LET out == [responses |-> <<>>, next |-> 0, asoc |-> NoAsoc,
              onErrorCalls |-> <<>>, onSuccessCalls |-> 0, threw |-> FALSE,
              validated |-> TRUE, result |-> result]
  IN IF ~result.valid
     THEN [out EXCEPT !.responses = <<Forbidden403Response(result)>>]
     ELSE [out EXCEPT !.next = 1,
                      !.asoc = [attached |-> TRUE, ticket |-> result.payload,
                                agentId |-> result.payload.sub,
                                auditLevel |-> result.payload.audit_level]]

\* Variant: a logging-only middleware that admits whatever the result.
HandleResultLogOnly(config, result) ==
  [responses |-> <<>>, next |-> 1, asoc |-> NoAsoc, onErrorCalls |-> <<>>,
   onSuccessCalls |-> 0, threw |-> FALSE, validated |-> TRUE, result |-> result]

\* The middleware from the validation result on.
HandleResult(config, result) ==
  LET out == [responses |-> <<>>, next |-> 0, asoc |-> NoAsoc,
              onErrorCalls |-> <<>>, onSuccessCalls |-> 0, threw |-> FALSE,
              validated |-> TRUE, result |-> result]
  IN IF ~result.valid
     THEN IF config.onError # "none"
          THEN LET called ==
                     [out EXCEPT !.onErrorCalls =
                        <<TrustProxyError(
                            OrElse(result, "error", "Ticket validation failed"), 403,
                            OrElse(result, "errorCode", "VALIDATION_FAILED"))>>]
               IN IF config.onError = "throws"
                  THEN CatchBlock(config, called)
                  ELSE called
          ELSE [out EXCEPT !.responses = <<Forbidden403Response(result)>>]
     ELSE LET attached ==
                [out EXCEPT !.asoc =
                   [attached |-> TRUE, ticket |-> result.payload,
                    agentId |-> result.payload.sub,
                    auditLevel |-> result.payload.audit_level]]
          IN IF config.onSuccess = "none"
             THEN [attached EXCEPT !.next = 1]
             ELSE IF config.onSuccess = "throws"
             THEN CatchBlock(config, [attached EXCEPT !.onSuccessCalls = 1])
             ELSE [attached EXCEPT !.onSuccessCalls = 1, !.next = 1]

\* await issuer.validate...: a rejection lands in the catch block.
AwaitValidation(config, result) ==
  IF "threw" \in DOMAIN result
  THEN CatchBlock(config,
         [responses |-> <<>>, next |-> 0, asoc |-> NoAsoc, onErrorCalls |-> <<>>,
          onSuccessCalls |-> 0, threw |-> FALSE, validated |-> TRUE,
          result |-> result])
  ELSE HandleResult(config, result)

\* The handler createTrustProxy(config) returns, run on a request.
createTrustProxy(config, req, clock) ==
  IF Falsy(req.proof)
  THEN IF config.requireProof
       THEN [Outcome0 EXCEPT !.responses = <<Payment402Response>>]
       ELSE [Outcome0 EXCEPT !.next = 1]
  ELSE AwaitValidation(config, ProxyValidation(config, req, clock))

\* strictTrustProxy(config) and optionalTrustProxy(config): the configuration
\* each hands to createTrustProxy.
strictTrustProxy(config) ==
  [config EXCEPT !.requireProof = TRUE, !.validateTransactionValue = TRUE]

optionalTrustProxy(config) ==
  [config EXCEPT !.requireProof = FALSE, !.validateTransactionValue = FALSE]

\* The middleware configurations: requireProof and validateTransactionValue
\* either way, each callback absent, returning or throwing.
ProxyConfigs ==
  [issuer : {"hs"}, requireProof : BOOLEAN, validateTransactionValue : BOOLEAN,
   transactionValuePath : {<<"amount">>, <<"payment", "amount">>},
   mcpServerPath : {<<"mcp_server">>},
   onError : {"none", "returns", "throws"},
   onSuccess : {"none", "returns", "throws"}]

\* The request bodies callers send.
Bodies ==
  {JUndefined, JObject(<<>>),
   JObject([amount |-> JNum(25), mcp_server |-> JText("finance-node")]),
   JObject([amount |-> JNum(75), mcp_server |-> JText("finance-node")]),
   JObject([amount |-> JNum(25), mcp_server |-> JText("legal-node")]),
   JObject([mcp_server |-> JText("legal-node")]),
   JObject([payment |-> JObject([amount |-> JNum(75)])])}

\* The proof header of a request: absent, empty, or the followed ticket.
Proofs == {Undefined, Str(<<>>)} \cup (IF ticket = NoTicket THEN {} ELSE {ticket.token})

\* A request reaches the middleware created with `config`.
ProxyRequest(config, proof, body) ==
  LET req == [proof |-> proof, body |-> body] IN
  /\ last = NoCall
  /\ last' = [op |-> "createTrustProxy", config |-> config, req |-> req,
              outcome |-> createTrustProxy(config, req, now)]
  /\ UNCHANGED <<now, registry, ticket, expiredBy, noted, peer>>

\* ------------------------------------------------------------- specification

\* The issuers that issue and validate in the ticket lifecycle.
Authorities == {"hs", "rs"}

\* Ticket lifecycle: tickets are issued directly and through the registry
\* tools, the kill switch is flipped, the clock advances, and the followed
\* ticket is validated as issued.
Next ==
  \/ \E i \in Authorities, o \in GenOptions : GenerateTicket(i, o)
  \/ \E i \in Authorities, o \in GenOptions : GenerateTicket(i, WithValidity(o, 1))
  \/ \E a \in IssueArgs : IssueAuditTicket(a)
  \/ \E a \in {AgentIds[1], AgentIds[2], "agent-00000"} : ActivateKillSwitch(a)
  \/ Tick
  \/ Return
  \/ \E i \in Authorities : ticket # NoTicket /\ ValidateTicket(i, ticket.token)
  \/ \E i \in Authorities : ticket # NoTicket /\ ValidateTicketSync(i, ticket.token)
  \/ \E i \in Authorities, v \in TxValues, m \in TxServers :
       ticket # NoTicket /\ ValidateTransaction(i, ticket.token, v, m)

Spec == Init /\ [][Next]_vars

\* The options of the tickets followed on the wire.
WireOptions == {o \in GenOptions : o.agentId = AgentIds[1]}

\* The issuer validates an altered copy of a ticket it accepts as issued.
ValidateAltered(i, token) ==
  /\ last = NoCall
  /\ ticket # NoTicket
  /\ validateTicket(i, ticket.token, now).valid
  /\ token \in AlteredTickets
  /\ ValidateTicket(i, token)

\* Tickets on the wire: tickets of every issuer instance, altered copies of
\* them and malformed tokens are presented to the authorities.
WireNext ==
  \/ \E i \in Issuers, o \in WireOptions : GenerateTicket(i, WithValidity(o, 1))
  \/ Tick
  \/ Return
  \/ \E i \in Authorities, t \in PlainTokens : ValidateTicket(i, t)
  \/ \E i \in Authorities, t \in PlainTokens :
       ValidateTicketSync(i, t)
  \/ \E i \in Authorities, t \in PlainTokens :
       ValidateTransaction(i, t, 25, "finance-node")
  \/ \E i \in Authorities, t \in AlteredTickets : ValidateAltered(i, t)

WireSpec == Init /\ [][WireNext]_vars

\* The tickets presented at the gate.
GateOptions == {o \in GenOptions : o.agentId = AgentIds[1]}

\* Requests at the gate: tickets of the authority and of the instance
\* holding another secret are presented to every middleware configuration.
GateNext ==
  \/ \E i \in {"hs", "rogue"}, o \in GateOptions :
       GenerateTicket(i, WithValidity(o, 1))
  \/ Tick
  \/ Return
  \/ \E c \in ProxyConfigs, p \in Proofs, b \in Bodies : ProxyRequest(c, p, b)
  \/ ticket # NoTicket /\ ValidateTicket("hs", ticket.token)
  \/ ticket # NoTicket /\ ValidateTicketSync("hs", ticket.token)
  \/ \E v \in TxValues, m \in TxServers :
       ticket # NoTicket /\ ValidateTransaction("hs", ticket.token, v, m)

GateSpec == Init /\ [][GateNext]_vars

\* Options as callers outside the type checker pass them (plain JavaScript,
\* or `as any`): without constraints, or with constraints lacking
\* allowed_mcp_servers or max_op_value; and well-typed options beside them.
UntypedOptions ==
  { [agentId |-> AgentIds[1], auditLevel |-> "Gold"],
    [agentId |-> AgentIds[1], auditLevel |-> "Gold",
     constraints |-> [max_op_value |-> 50, kill_switch_active |-> FALSE]],
    [agentId |-> AgentIds[1], auditLevel |-> "Gold",
     constraints |-> [allowed_mcp_servers |-> ServerLists[2],
                      kill_switch_active |-> FALSE]],
    [agentId |-> AgentIds[1], auditLevel |-> "Gold",
     constraints |-> [max_op_value |-> 50, allowed_mcp_servers |-> ServerLists[2],
                      kill_switch_active |-> FALSE]] }

\* Faults: the authority signs what untyped callers hand it, and the
\* tickets, and malformed tokens, go to the validators and through the gate.
FaultNext ==
  \/ \E o \in UntypedOptions : GenerateTicket("hs", WithValidity(o, 1))
  \/ Tick
  \/ Return
  \/ \E t \in PlainTokens : ValidateTicket("hs", t)
  \/ \E t \in PlainTokens : ValidateTicketSync("hs", t)
  \/ \E t \in PlainTokens, v \in TxValues, m \in TxServers :
       ValidateTransaction("hs", t, v, m)
  \/ \E c \in ProxyConfigs, p \in Proofs, b \in Bodies : ProxyRequest(c, p, b)

FaultSpec == Init /\ [][FaultNext]_vars

\* The options of the x402 example's "Modify Constraints": every server
\* allowed by the wildcard entry.
ExampleOptions ==
  { [agentId |-> AgentIds[1], auditLevel |-> "Platinum",
     constraints |-> [max_op_value |-> 100, allowed_mcp_servers |-> ServerLists[3],
                      kill_switch_active |-> FALSE]] }

\* The x402 example modified: the buyer's ticket is generated with the
\* wildcard whitelist and with the default, a one-unit or a zero validity,
\* and presented for transactions on several servers.
ExampleNext ==
  \/ \E o \in ExampleOptions : GenerateTicket("hs", o)
  \/ \E o \in ExampleOptions, v \in {0, 1} : GenerateTicket("hs", WithValidity(o, v))
  \/ Tick
  \/ Return
  \/ ticket # NoTicket /\ ValidateTicket("hs", ticket.token)
  \/ \E v \in TxValues, m \in TxServers \cup {"*"} :
       ticket # NoTicket /\ ValidateTransaction("hs", ticket.token, v, m)

ExampleSpec == Init /\ [][ExampleNext]_vars

\* The trust score tools of both servers over the seeded agents, with the
\* first agent's stored score anywhere in 0..MaxScore.
ScoreInit ==
  /\ now = 0
  /\ \E score \in 0..MaxScore :
       registry = updateAgent(SeedAgents, AgentIds[1], [trustScore |-> score])
  /\ ticket = NoTicket
  /\ last = NoCall
  /\ expiredBy = {}
  /\ noted = NoCall
  /\ peer = NoCall

ScoreNext ==
  \/ \E args \in ScoreArgs : GetTrustScore(args)
  \/ \E args \in ScoreArgs : GetTrustScoreDb(args)
  \/ TrustScoreDbAnswered
  \/ \E updates \in AgentUpdates : UpdateAgent(AgentIds[1], updates)
  \/ ActivateKillSwitch(AgentIds[1])
  \/ KeepScore
  \/ Return

ScoreSpec == ScoreInit /\ [][ScoreNext]_vars

\* The database-backed server: its three tools that query the database, the
\* database answering or failing, and the tickets it issues validated.
DbNext ==
  \/ \E args \in IssueArgs : IssueAuditTicketDb(args)
  \/ \E a \in {AgentIds[1], "agent-00000"} :
       ActivateKillSwitchDb([agentId |-> a, reason |-> "fraud"])
  \/ \E args \in ScoreArgs : GetTrustScoreDb(args)
  \/ IssueDbAnswered
  \/ KillSwitchDbAnswered
  \/ TrustScoreDbAnswered
  \/ DbRejected
  \/ Tick
  \/ Return
  \/ ticket # NoTicket /\ ValidateTicket(ServerIssuer, ticket.token)

DbSpec == Init /\ [][DbNext]_vars

\* The same with the scheduling the runtime gives: a handler that is called
\* runs to its await, a returned result is taken, and nothing makes the
\* database answer.
DbLiveSpec == DbSpec /\ WF_vars(Return) /\ WF_vars(Tick)

\* The AI middleware, created with each of the options and called for
\* generations and streams of each outcome.
AiNext ==
  \/ \E options \in AiOptions, generation \in Generations :
       WrapGenerate(options, generation)
  \/ \E options \in AiOptions, streamed \in Streams : WrapStream(options, streamed)
  \/ Return

AiSpec == Init /\ [][AiNext]_vars

\* The registry tools of both servers over the agents on file, called one
\* after the other.
RegistryNext ==
  \/ \E args \in IssueArgs : IssueAuditTicket(args)
  \/ \E a \in {AgentIds[1], "agent-00000"} : ActivateKillSwitch(a)
  \/ \E args \in ScoreArgs : GetTrustScore(args) \/ IsAgentCertified(args)
  \/ \E args \in QueryArgs : QueryAgents(args)
  \/ \E args \in IssueArgs : IssueAuditTicketDb(args)
  \/ \E a \in {AgentIds[1], "agent-00000"} :
       ActivateKillSwitchDb([agentId |-> a, reason |-> "fraud"])
  \/ \E args \in ScoreArgs : GetTrustScoreDb(args) \/ IsAgentCertifiedDb(args)
  \/ \E args \in QueryArgs : QueryAgentsDb(args)
  \/ IssueDbAnswered
  \/ KillSwitchDbAnswered
  \/ TrustScoreDbAnswered
  \/ CertifiedDbAnswered
  \/ QueryDbAnswered
  \/ KeepKillSwitch
  \/ Tick
  \/ Return

RegistrySpec == Init /\ [][RegistryNext]_vars

\* An agent registered in the database without constraints in its metadata.
UnconstrainedAgent == AgentIds[3]

\* The rows of the database: the seeded agents, and an agent registered
\* without constraints.
DbRows ==
  [a \in DOMAIN SeedAgents \cup {UnconstrainedAgent} |->
     IF a \in DOMAIN SeedAgents THEN SeedAgents[a]
     ELSE [agentId |-> a, auditLevel |-> "Bronze", trustScore |-> 0,
           organization |-> "Gamma Labs", killSwitchActive |-> FALSE,
           metadata |-> [name |-> "Research Agent", capabilities |-> {}],
           certification |-> [mva_level |-> 1, expires_at |-> 350 * 864],
           health |-> [uptime_percentage |-> 0, avg_latency_ms |-> 0,
                       error_rate |-> 0, total_transactions |-> 0]]]

DbInit ==
  /\ now = 0
  /\ registry = DbRows
  /\ ticket = NoTicket
  /\ last = NoCall
  /\ expiredBy = {}
  /\ noted = NoCall
  /\ peer = NoCall

\* The database-backed server with two clients: one calls the tools, the
\* database executing its query and the handler resuming as separate steps;
\* the other activates the kill switch meanwhile.
DbClientsNext ==
  \/ \E a \in {AgentIds[1], UnconstrainedAgent, "agent-00000"} :
       IssueAuditTicketDb([agentId |-> a])
  \/ DbReadsRow
  \/ IssueDbAnswered
  \/ \E a \in {AgentIds[1], "agent-00000"} :
       ActivateKillSwitchDb([agentId |-> a, reason |-> "fraud"])
  \/ KillSwitchDbAnswered
  \/ \E args \in QueryArgs : QueryAgentsDb(args)
  \/ QueryDbAnswered
  \/ PeerActivateKillSwitchDb([agentId |-> AgentIds[1], reason |-> "fraud"])
  \/ PeerKillSwitchDbAnswered
  \/ PeerReturn
  \/ KeepKillSwitch
  \/ Tick
  \/ Return
  \/ ticket # NoTicket /\ ValidateTicket(ServerIssuer, ticket.token)

DbClientsSpec == DbInit /\ [][DbClientsNext]_vars

\* Repeated calls: the authority's tickets, issued directly and by the
\* registry tool, are put to validateTransaction again and again while the
\* clock advances, the kill switch is flipped and other validations run.
RepeatNext ==
  \/ \E o \in WireOptions : GenerateTicket("hs", WithValidity(o, 1))
  \/ IssueAuditTicket([agentId |-> AgentIds[1], validitySeconds |-> 2])
  \/ ActivateKillSwitch(AgentIds[1])
  \/ Tick
  \/ Return
  \/ KeepResult
  \/ ticket # NoTicket /\ ValidateTicket("hs", ticket.token)
  \/ \E v \in {25, 75}, m \in {NoServer, "legal-node"} :
       ticket # NoTicket /\ ValidateTransaction("hs", ticket.token, v, m)
  \/ \E v \in {25, 75}, m \in {NoServer, "legal-node"} :
       noted # NoCall /\ ValidateTransaction("hs", noted.token, v, m)

RepeatSpec == Init /\ [][RepeatNext]_vars

\* -------------------------------------------------------------- properties

ValidationOps == {"validateTicket", "validateTicketSync", "validateTransaction"}

\* The call that has returned validated the followed ticket as it was issued.
ValidatedTicket ==
  /\ ticket # NoTicket
  /\ last.op \in ValidationOps
  /\ last.token = ticket.token

\* A validation result by its kind: VALID or its error code.
Kind(result) == IF result.valid THEN "VALID" ELSE result.errorCode

\* The signature segment of the token verifies over its first two segments
\* under issuer i's algorithm and verification key.
SignatureVerifies(i, token) ==
  /\ token.t = "string"
  /\ LET parts == Split(token.s) IN
       /\ Len(parts) = 3
       /\ HeaderParses(parts[1])
       /\ DecodeHeader(parts[1]).alg = Config(i).algorithm
       /\ JwaVerify(Config(i).algorithm, parts[1] \o <<Dot>> \o parts[2],
                    parts[3], Config(i).publicKey)

\* Issuer instance b signs with the key and algorithm instance i verifies with.
SameKey(b, i) ==
  /\ Config(b).signingKey = Config(i).signingKey
  /\ Config(b).algorithm = Config(i).algorithm

\* The message of the issuer-mismatch error for validator i.
IssuerMismatch(i) == "jwt issuer invalid. expected: " \o Config(i).issuer

\* The transaction of a validateTransaction call breaks the constraints c.
BreaksConstraints(c) ==
  /\ last.op = "validateTransaction"
  /\ \/ last.value > c.max_op_value
     \/ last.mcpServer # NoServer /\ last.mcpServer \notin c.allowed_mcp_servers

\* C1: validateTicket, validateTicketSync and validateTransaction return
\* valid = true only for a token whose signature verifies under the
\* validating issuer's algorithm and key, whatever its payload says.
C1_ValidOnlyIfSignatureVerifies ==
  (last.op \in ValidationOps /\ last.result.valid)
    => SignatureVerifies(last.by, last.token)

\* C1 case: an unexpired ticket naming the authority as issuer, signed with
\* another secret, is put to validateTransaction and refused.
C1_ForgedTicketRefused ==
  /\ ValidatedTicket
  /\ ticket.by = "rogue"
  /\ last.by = "hs"
  /\ last.op = "validateTransaction"
  /\ now < ticket.signed.exp
  /\ ticket.signed.iss = Config(last.by).issuer
  /\ ~SignatureVerifies(last.by, last.token)
  /\ ~last.result.valid
  /\ last.result.errorCode = "INVALID_SIGNATURE"

\* C2: a ticket signed by the validating issuer, unexpired, whose embedded
\* kill_switch_active is true is refused with KILL_SWITCH by validateTicket,
\* validateTicketSync, validateTransaction (any value and server) and is
\* not admitted by the gate.
C2_KillSwitchDominance ==
  (/\ ticket # NoTicket
   /\ now < ticket.signed.exp
   /\ ticket.options.constraints.kill_switch_active)
    => /\ (ValidatedTicket /\ last.by = ticket.by)
            => (~last.result.valid /\ last.result.errorCode = "KILL_SWITCH")
       /\ (/\ last.op = "createTrustProxy"
           /\ last.req.proof = ticket.token
           /\ last.config.issuer = ticket.by)
            => /\ last.outcome.next = 0
               /\ ~last.outcome.asoc.attached
               /\ ~last.outcome.result.valid
               /\ last.outcome.result.errorCode = "KILL_SWITCH"

\* C2 case: the gate answers 403 KILL_SWITCH to a request whose proof is a
\* live ticket of the authority with the kill switch embedded.
C2_GateAnswersKillSwitch ==
  /\ ticket # NoTicket
  /\ ticket.by = "hs"
  /\ now < ticket.signed.exp
  /\ ticket.options.constraints.kill_switch_active
  /\ last.op = "createTrustProxy"
  /\ last.req.proof = ticket.token
  /\ Len(last.outcome.responses) = 1
  /\ last.outcome.responses[1].code = 403
  /\ last.outcome.responses[1].error_code = "KILL_SWITCH"
  /\ last.outcome.next = 0

\* The first thing the middleware did with an invalid result is a 403
\* carrying the result's error message and error code: the 403 body, or the
\* TrustProxyError handed to onError.
Rejected403(config, out) ==
  IF config.onError = "none"
  THEN /\ out.onErrorCalls = <<>>
       /\ Len(out.responses) = 1
       /\ out.responses[1].code = 403
       /\ out.responses[1].reason = out.result.error
       /\ out.responses[1].error_code = out.result.errorCode
  ELSE /\ out.responses = <<>>
       /\ Len(out.onErrorCalls) >= 1
       /\ out.onErrorCalls[1].statusCode = 403
       /\ out.onErrorCalls[1].message = out.result.error
       /\ out.onErrorCalls[1].errorCode = out.result.errorCode

\* C3: on a request carrying a proof the gate calls next() or attaches
\* req.asoc = {ticket, agentId, auditLevel} only if the issuer's validation of
\* that token was valid; on an invalid result it rejects with a 403 carrying
\* the result's error and error code and does not call next().
C3_GateFollowsValidation ==
  (last.op = "createTrustProxy" /\ ~Falsy(last.req.proof))
    => LET out == last.outcome IN
       /\ out.validated
       /\ (out.next > 0 \/ out.asoc.attached)
            => /\ out.result.valid
               /\ validateTicket(last.config.issuer, last.req.proof, now).valid
               /\ out.asoc = [attached |-> TRUE, ticket |-> out.result.payload,
                              agentId |-> out.result.payload.sub,
                              auditLevel |-> out.result.payload.audit_level]
       /\ ~out.result.valid
            => /\ out.next = 0
               /\ ~out.asoc.attached
               /\ out.onSuccessCalls = 0
               /\ Rejected403(last.config, out)

\* C3 case: the gate answers 403 EXPIRED to an expired ticket of the authority.
C3_GateRejectsExpired ==
  /\ ticket # NoTicket
  /\ ticket.by = "hs"
  /\ now >= ticket.signed.exp
  /\ last.op = "createTrustProxy"
  /\ last.req.proof = ticket.token
  /\ last.outcome.next = 0
  /\ ~last.outcome.asoc.attached
  /\ Len(last.outcome.responses) = 1
  /\ last.outcome.responses[1].code = 403
  /\ last.outcome.responses[1].error_code = "EXPIRED"

\* C4: a ticket with exp = t and no other defect is valid for validateTicket
\* at every clock value below t, is refused with EXPIRED at every clock value
\* from t on (t included), and is never valid again once reported EXPIRED.
C4_ExpiryMonotonicity ==
  (/\ ValidatedTicket
   /\ last.op = "validateTicket"
   /\ last.by = ticket.by
   /\ ~ticket.options.constraints.kill_switch_active)
    => /\ now < ticket.signed.exp => last.result.valid
       /\ now >= ticket.signed.exp
            => (~last.result.valid /\ last.result.errorCode = "EXPIRED")
       /\ last.result.valid => last.by \notin expiredBy

\* C4 case: validateTicket at the very second of exp reports EXPIRED.
C4_ExpiredAtExp ==
  /\ ValidatedTicket
  /\ last.op = "validateTicket"
  /\ last.by = ticket.by
  /\ ~ticket.options.constraints.kill_switch_active
  /\ now = ticket.signed.exp
  /\ ~last.result.valid
  /\ last.result.errorCode = "EXPIRED"
  /\ last.by \in expiredBy

C6_KillSwitchRevokesTickets ==
  (/\ ValidatedTicket
   /\ ticket.via = "issue_audit_ticket"
   /\ registry[ticket.options.agentId].killSwitchActive)
    => ~last.result.valid

\* C7: changing one byte of the payload or signature segment of a token
\* validateTicket accepts gives a token validateTicket refuses with
\* INVALID_SIGNATURE or INVALID_FORMAT.
C7_TamperSensitivity ==
  (/\ ticket # NoTicket
   /\ last.op = "validateTicket"
   /\ last.token \in AlteredTickets
   /\ SignatureVerifies(last.by, ticket.token)
   /\ ticket.signed.iss = Config(last.by).issuer
   /\ now < ticket.signed.exp
   /\ ~ticket.options.constraints.kill_switch_active)
    => /\ ~last.result.valid
       /\ last.result.errorCode \in {"INVALID_SIGNATURE", "INVALID_FORMAT"}

\* The validity generateTicket gives a ticket issued with the options.
ValidityOf(i, options) ==
  IF "validityDuration" \in DOMAIN options
  THEN options.validityDuration ELSE Config(i).defaultValidity

\* C8: a ticket generated with kill_switch_active = false and a positive
\* validity, validated by the same issuer before it expires, is valid with
\* the payload that was signed: iss the configured issuer, sub the agentId,
\* audit_level, constraints and metadata as supplied, iat the time of
\* issuance and exp = iat + validity.
C8_RoundTrip ==
  (/\ ValidatedTicket
   /\ last.op \in {"validateTicket", "validateTicketSync"}
   /\ last.by = ticket.by
   /\ ~ticket.options.constraints.kill_switch_active
   /\ ValidityOf(ticket.by, ticket.options) > 0
   /\ now < ticket.at + ValidityOf(ticket.by, ticket.options))
    => /\ last.result.valid
       /\ LET p == last.result.payload
              o == ticket.options
          IN /\ p.iss = SuppliedConfig[ticket.by].issuer
             /\ p.sub = o.agentId
             /\ p.audit_level = o.auditLevel
             /\ p.constraints = o.constraints
             /\ p.iat = ticket.at
             /\ p.exp = ticket.at + ValidityOf(ticket.by, o)
             /\ ("metadata" \in DOMAIN p) = ("metadata" \in DOMAIN o)
             /\ "metadata" \in DOMAIN o => p.metadata = o.metadata

\* C8 case: a ticket carrying metadata, issued with the default validity, is
\* validated by its issuer after the clock has advanced and comes back whole.
C8_MetadataComesBack ==
  /\ ValidatedTicket
  /\ last.op = "validateTicket"
  /\ last.by = ticket.by
  /\ now > ticket.at
  /\ "metadata" \in DOMAIN ticket.options
  /\ last.result.valid
  /\ last.result.payload.metadata = ticket.options.metadata
  /\ last.result.payload.exp = ticket.at + DefaultValidity

\* The token's second segment is not what JSON.parse accepts, in a token of
\* three base64url segments.
PayloadBroken(token) ==
  /\ token.t = "string"
  /\ LET parts == Split(token.s) IN
       /\ Len(parts) = 3
       /\ IsValidJws(parts)
       /\ HeaderParses(parts[1])
       /\ ~PayloadParses(parts[2])

\* C9 (as the code has it): validation short-circuits in the order
\* structural parse, signature, expiry, issuer match, and the embedded kill
\* switch is examined after all four: a correctly signed ticket with a
\* mismatched issuer and a past exp is reported EXPIRED, and reported for the
\* issuer mismatch (INVALID_SIGNATURE, jwt issuer invalid) only while it is
\* unexpired; a ticket with a bad signature is INVALID_SIGNATURE whatever
\* its exp; a payload that does not parse is INVALID_FORMAT although the
\* signature does not verify either.
C9_ExpiryBeforeIssuer ==
  /\ ValidatedTicket
       => IF ~SameKey(ticket.by, last.by)
          THEN /\ Kind(last.result) = "INVALID_SIGNATURE"
               /\ last.result.error \in {"invalid signature", "invalid algorithm"}
          ELSE IF now >= ticket.signed.exp
          THEN Kind(last.result) = "EXPIRED"
          ELSE IF ticket.signed.iss # Config(last.by).issuer
          THEN /\ Kind(last.result) = "INVALID_SIGNATURE"
               /\ last.result.error = IssuerMismatch(last.by)
          ELSE IF ticket.options.constraints.kill_switch_active
          THEN Kind(last.result) = "KILL_SWITCH"
          ELSE Kind(last.result) = "VALID"
  /\ (/\ last.op \in ValidationOps
      /\ PayloadBroken(last.token)
      /\ ~SignatureVerifies(last.by, last.token))
       => Kind(last.result) = "INVALID_FORMAT"

\* C9 case: a ticket signed with the authority's secret by the instance
\* configured with another issuer name is validated by the authority after
\* its exp, and is reported EXPIRED.
C9_SiblingTicketExpired ==
  /\ ValidatedTicket
  /\ ticket.by = "sibling"
  /\ last.by = "hs"
  /\ SameKey(ticket.by, last.by)
  /\ ticket.signed.iss # Config(last.by).issuer
  /\ now >= ticket.signed.exp
  /\ Kind(last.result) = "EXPIRED"

\* C9 as stated: the order is structural parse, signature, issuer match,
\* expiry, then the kill switch: a correctly signed ticket with a mismatched
\* issuer is reported for the issuer mismatch also past its exp.
C9_IssuerBeforeExpiry ==
  ValidatedTicket
    => IF ~SameKey(ticket.by, last.by)
       THEN Kind(last.result) = "INVALID_SIGNATURE"
       ELSE IF ticket.signed.iss # Config(last.by).issuer
       THEN /\ ~last.result.valid
            /\ last.result.error = IssuerMismatch(last.by)
       ELSE IF now >= ticket.signed.exp
       THEN Kind(last.result) = "EXPIRED"
       ELSE IF ticket.options.constraints.kill_switch_active
       THEN Kind(last.result) = "KILL_SWITCH"
       ELSE Kind(last.result) = "VALID"

\* The token is not a string, or not three dot-joined decodable segments.
Malformed(token) ==
  \/ token.t # "string"
  \/ LET parts == Split(token.s) IN
       \/ Len(parts) # 3
       \/ ~IsValidJws(parts)
       \/ ~HeaderParses(parts[1])
       \/ ~PayloadParses(parts[2])

\* C10: validateTicket and validateTicketSync report a malformed token with
\* INVALID_FORMAT, and report INVALID_SIGNATURE only for well-formed tokens.
C10_MalformedIsInvalidFormat ==
  last.op \in {"validateTicket", "validateTicketSync"}
    => /\ Malformed(last.token) => Kind(last.result) = "INVALID_FORMAT"
       /\ Kind(last.result) = "INVALID_SIGNATURE" => ~Malformed(last.token)

\* C11: validateTicket, validateTicketSync and validateTransaction complete
\* with a ValidationResult for every token, value and server, also for a
\* correctly signed token whose payload lacks constraints or
\* allowed_mcp_servers: none of them throws or rejects.
C11_ValidationNeverThrows ==
  last.op \in ValidationOps => "threw" \notin DOMAIN last.result

\* The followed ticket passes validateTicket of the issuer that was called:
\* it was signed by that issuer, is unexpired and has no kill switch.
TicketPasses ==
  /\ ValidatedTicket
  /\ last.by = ticket.by
  /\ now < ticket.signed.exp
  /\ ~ticket.options.constraints.kill_switch_active

\* The messages of the two constraint rules.
ValueExceeds(value, limit) ==
  "Transaction value $" \o ToString(value) \o " exceeds limit $" \o ToString(limit)

ServerNotAllowed(server) == "MCP server \"" \o server \o "\" not in allowed list"

\* C12: on a ticket that passes validateTicket, validateTransaction applies
\* (1) value > max_op_value, then (2) server present and not in
\* allowed_mcp_servers, each giving CONSTRAINT_VIOLATION, the first failing
\* rule being the one reported; value = max_op_value passes rule 1 and an
\* absent server skips rule 2; otherwise the result is valid.
C12_RuleOrder ==
  (TicketPasses /\ last.op = "validateTransaction")
    => LET c == ticket.options.constraints IN
       IF last.value > c.max_op_value
       THEN /\ Kind(last.result) = "CONSTRAINT_VIOLATION"
            /\ last.result.error = ValueExceeds(last.value, c.max_op_value)
       ELSE IF last.mcpServer # NoServer /\ last.mcpServer \notin c.allowed_mcp_servers
       THEN /\ Kind(last.result) = "CONSTRAINT_VIOLATION"
            /\ last.result.error = ServerNotAllowed(last.mcpServer)
       ELSE last.result.valid

\* C12 case: a $75 transaction on legal-node against a ticket limited to $50
\* on finance-node is reported for the value.
C12_BothRulesBroken ==
  /\ TicketPasses
  /\ last.op = "validateTransaction"
  /\ last.value = 75
  /\ ticket.options.constraints.max_op_value = 50
  /\ last.mcpServer = "legal-node"
  /\ last.mcpServer \notin ticket.options.constraints.allowed_mcp_servers
  /\ last.result.error = ValueExceeds(75, 50)

\* C14: a result rejected for a constraint rule has valid = false, errorCode
\* CONSTRAINT_VIOLATION and the decoded payload of the ticket; a result
\* rejected for any other reason has no payload.
C14_ConstraintViolationCarriesPayload ==
  /\ (TicketPasses /\ BreaksConstraints(ticket.options.constraints))
       => /\ Kind(last.result) = "CONSTRAINT_VIOLATION"
          /\ "payload" \in DOMAIN last.result
          /\ last.result.payload = ticket.signed
  /\ (/\ last.op \in ValidationOps
      /\ ~last.result.valid
      /\ last.result.errorCode # "CONSTRAINT_VIOLATION")
       => "payload" \notin DOMAIN last.result

\* C14 case: a transaction over the limit of a tool-issued ticket is refused
\* and the result names the agent.
C14_RefusalNamesAgent ==
  /\ TicketPasses
  /\ ticket.via = "issue_audit_ticket"
  /\ last.op = "validateTransaction"
  /\ last.value > ticket.options.constraints.max_op_value
  /\ Kind(last.result) = "CONSTRAINT_VIOLATION"
  /\ last.result.payload.sub = ticket.options.agentId

\* C15 (as the code has it): a returned ValidationResult is either
\* valid = true with a payload and no error or errorCode, or valid = false
\* with an errorCode and an error message; an invalid result carries a
\* payload exactly when its errorCode is CONSTRAINT_VIOLATION.
C15_ResultVariants ==
  last.op \in ValidationOps
    => IF last.result.valid
       THEN DOMAIN last.result = {"valid", "payload"}
       ELSE /\ {"valid", "error", "errorCode"} \subseteq DOMAIN last.result
            /\ last.result.error # ""
            /\ last.result.errorCode \in
                 {"EXPIRED", "INVALID_SIGNATURE", "INVALID_FORMAT", "KILL_SWITCH",
                  "CONSTRAINT_VIOLATION"}
            /\ ("payload" \in DOMAIN last.result)
                 = (last.result.errorCode = "CONSTRAINT_VIOLATION")

\* C15 case: a transaction on a server outside the whitelist is refused with
\* both an error and the payload.
C15_ErrorWithPayload ==
  /\ TicketPasses
  /\ last.op = "validateTransaction"
  /\ last.value <= ticket.options.constraints.max_op_value
  /\ last.mcpServer \notin ticket.options.constraints.allowed_mcp_servers \cup {NoServer}
  /\ ~last.result.valid
  /\ {"error", "errorCode", "payload"} \subseteq DOMAIN last.result

\* C15 as stated: a result never has both a payload and an error: valid
\* results have a payload and no error or errorCode, invalid results an
\* errorCode and message and no payload.
C15_PayloadOrError ==
  last.op \in ValidationOps
    => IF last.result.valid
       THEN DOMAIN last.result = {"valid", "payload"}
       ELSE DOMAIN last.result = {"valid", "error", "errorCode"}

\* The gate wrote a response with this status code.
Responded(out, code) == \E k \in 1..Len(out.responses) : out.responses[k].code = code

\* The gate handed onError an error with this status code.
ToldOnError(out, code) ==
  \E k \in 1..Len(out.onErrorCalls) : out.onErrorCalls[k].statusCode = code

\* C13: with transaction validation enabled, a request whose body names a
\* target server outside the ticket's allowed_mcp_servers is not admitted,
\* whether or not the body declares an amount.
C13_WhitelistWithoutAmount ==
  (/\ last.op = "createTrustProxy"
   /\ ticket # NoTicket
   /\ last.req.proof = ticket.token
   /\ last.config.validateTransactionValue
   /\ getNestedProperty(last.req.body, last.config.mcpServerPath).t = "text"
   /\ getNestedProperty(last.req.body, last.config.mcpServerPath).x
        \notin ticket.options.constraints.allowed_mcp_servers)
    => last.outcome.next = 0

\* C16: a request without proof header at a gate with requireProof = true
\* gets the 402 response with payment_context {required_proof,
\* issuer_endpoint, documentation}; no internal error is reported, the
\* issuer is not called and next() is not called.
C16_MissingProofIs402 ==
  (/\ last.op = "createTrustProxy"
   /\ last.req.proof = Undefined
   /\ last.config.requireProof)
    => LET out == last.outcome IN
       /\ Len(out.responses) = 1
       /\ out.responses[1].code = 402
       /\ out.responses[1].error = "Payment Required"
       /\ DOMAIN out.responses[1].payment_context
            = {"required_proof", "issuer_endpoint", "documentation"}
       /\ out.responses[1].payment_context.required_proof = "X-ASOC-Proof"
       /\ ~out.validated
       /\ out.next = 0
       /\ ~out.asoc.attached
       /\ ~ToldOnError(out, 500)
       /\ ~out.threw

\* C16 case: the 402 is written for a request with a transaction body and
\* no proof header.
C16_NoProofGets402 ==
  /\ last.op = "createTrustProxy"
  /\ last.req.proof = Undefined
  /\ last.config.requireProof
  /\ last.req.body # JUndefined
  /\ Responded(last.outcome, 402)
  /\ last.outcome.next = 0

\* C17: whatever is thrown while the gate handles a request (by the issuer,
\* by field extraction, by a callback) ends in the 500 INTERNAL_ERROR
\* outcome, and the handler itself never throws or rejects.
C17_GateNeverThrows ==
  last.op = "createTrustProxy"
    => /\ ~last.outcome.threw
       /\ (last.outcome.validated /\ "threw" \in DOMAIN last.outcome.result)
            => (Responded(last.outcome, 500) \/ ToldOnError(last.outcome, 500))

\* C18 (as the code has it): a configured onSuccess is called at most once
\* per request, and exactly when the validation result is valid; so once for
\* every request admitted with a validated ticket and never for a request
\* answered 402 or 403 or admitted without proof.  A request on which it was
\* called is admitted unless onSuccess itself threw, which ends in the 500
\* outcome.
C18_OnSuccessOncePerValidResult ==
  (last.op = "createTrustProxy" /\ last.config.onSuccess # "none")
    => LET out == last.outcome IN
       /\ out.onSuccessCalls = IF out.validated /\ out.result.valid THEN 1 ELSE 0
       /\ (out.next > 0 /\ out.validated) => out.onSuccessCalls = 1
       /\ (out.next > 0 /\ ~out.validated) => out.onSuccessCalls = 0
       /\ (Responded(out, 402) \/ Responded(out, 403) \/ ToldOnError(out, 403))
            => out.onSuccessCalls = 0
       /\ (out.onSuccessCalls = 1 /\ out.next = 0)
            => /\ last.config.onSuccess = "throws"
               /\ (Responded(out, 500) \/ ToldOnError(out, 500))

\* C18 case: onSuccess is called once for a valid ticket and throws; the
\* request ends in the 500 response.
C18_ThrowingOnSuccess ==
  /\ last.op = "createTrustProxy"
  /\ last.config.onSuccess = "throws"
  /\ last.outcome.validated
  /\ last.outcome.result.valid
  /\ last.outcome.onSuccessCalls = 1
  /\ last.outcome.next = 0
  /\ Responded(last.outcome, 500)

\* C18 as stated: a configured onSuccess fires exactly once for every
\* request admitted with a validated ticket and never for a request the gate
\* rejects (402, 403 or 500) or admits without proof.
C18_OnSuccessOnlyWhenAdmitted ==
  (last.op = "createTrustProxy" /\ last.config.onSuccess # "none")
    => LET out == last.outcome IN
       /\ (out.next > 0 /\ out.validated) => out.onSuccessCalls = 1
       /\ (out.next = 0 \/ ~out.validated) => out.onSuccessCalls = 0

\* C19: with an onError callback configured, every rejected request (missing
\* required proof, failed validation, internal error) is handed to onError
\* and the gate writes no default 402/403/500 response itself.
C19_OnErrorControlsRejections ==
  (/\ last.op = "createTrustProxy"
   /\ last.config.onError # "none"
   /\ last.outcome.next = 0)
    => /\ Len(last.outcome.onErrorCalls) >= 1
       /\ last.outcome.responses = <<>>

\* C20: optionalTrustProxy does not block invalid tickets: a request whose
\* proof fails validation is still admitted.
C20_OptionalAdmitsInvalid ==
  (/\ last.op = "createTrustProxy"
   /\ last.config = optionalTrustProxy(last.config)
   /\ last.outcome.validated
   /\ ~last.outcome.result.valid)
    => last.outcome.next > 0

\* The returned validateTransaction call repeats the kept one: same issuer,
\* token, value and server.
RepeatsNoted ==
  /\ noted # NoCall
  /\ last.op = "validateTransaction"
  /\ last.by = noted.by
  /\ last.token = noted.token
  /\ last.value = noted.value
  /\ last.mcpServer = noted.mcpServer

\* C21 (as the code has it): validateTransaction with the same token, value
\* and server returns a result of the same kind as any earlier call, whatever
\* ran in between, except that a ticket whose earlier result was not EXPIRED
\* gets EXPIRED once the clock has reached its exp; at one clock reading the
\* kind is always the same, and EXPIRED is never followed by another kind.
C21_SameKindUntilExpiry ==
  RepeatsNoted
    => \/ Kind(last.result) = Kind(noted.result)
       \/ /\ Kind(last.result) = "EXPIRED"
          /\ noted.at < now
          /\ DecodePayload(Split(noted.token.s)[2]).exp <= now
          /\ noted.at < DecodePayload(Split(noted.token.s)[2]).exp

\* C21 case: the same call that returned valid returns EXPIRED later.
C21_ValidThenExpired ==
  /\ RepeatsNoted
  /\ noted.result.valid
  /\ noted.at < now
  /\ Kind(last.result) = "EXPIRED"

\* C21 as stated: validateTransaction with the same token, value and server
\* returns a result of the same kind at any times.
C21_SameKindAlways ==
  RepeatsNoted => Kind(last.result) = Kind(noted.result)

\* C22: every payload generateTicket signs has exp > iat, whatever validity
\* the caller supplies.
C22_ExpAfterIat ==
  (ticket # NoTicket /\ ticket.via = "generateTicket")
    => ticket.signed.exp > ticket.signed.iat

\* C27 (as the code has it): the message of a value rejection is
\* "Transaction value $v exceeds limit $m" and the message of a server
\* rejection is "MCP server "s" not in allowed list".
C27_MessagesWithDollarAndLead ==
  (/\ TicketPasses
   /\ last.op = "validateTransaction"
   /\ Kind(last.result) = "CONSTRAINT_VIOLATION")
    => IF last.value > ticket.options.constraints.max_op_value
       THEN /\ last.result.error
                 = "Transaction value $" \o ToString(last.value) \o " exceeds limit $"
                     \o ToString(ticket.options.constraints.max_op_value)
            /\ (last.value = 75 /\ ticket.options.constraints.max_op_value = 50)
                 => last.result.error = "Transaction value $75 exceeds limit $50"
       ELSE /\ last.result.error
                 = "MCP server \"" \o last.mcpServer \o "\" not in allowed list"
            /\ last.mcpServer = "legal-node"
                 => last.result.error = "MCP server \"legal-node\" not in allowed list"

\* C27 case: $25 on legal-node against a ticket for finance-node only.
C27_LegalNodeMessage ==
  /\ TicketPasses
  /\ last.op = "validateTransaction"
  /\ last.value = 25
  /\ last.mcpServer = "legal-node"
  /\ last.result.error = "MCP server \"legal-node\" not in allowed list"

\* C27 as stated: the messages are "Transaction value v exceeds limit m" and
\* "s not in allowed list".
C27_PlainMessages ==
  (/\ TicketPasses
   /\ last.op = "validateTransaction"
   /\ Kind(last.result) = "CONSTRAINT_VIOLATION")
    => IF last.value > ticket.options.constraints.max_op_value
       THEN last.result.error
              = "Transaction value " \o ToString(last.value) \o " exceeds limit "
                  \o ToString(ticket.options.constraints.max_op_value)
       ELSE last.result.error = last.mcpServer \o " not in allowed list"

\* C28: a ticket whose allowed_mcp_servers is ['*'] passes validateTransaction
\* for a value within the limit on any target server.
C28_WildcardAllowsAll ==
  (/\ TicketPasses
   /\ last.op = "validateTransaction"
   /\ ticket.options.constraints.allowed_mcp_servers = {"*"}
   /\ last.value <= ticket.options.constraints.max_op_value)
    => last.result.valid

\* C23: the expiresIn that issue_audit_ticket reports is the validitySeconds
\* asked for (300 s when omitted) and equals the issued ticket's exp - iat.
C23_ExpiresInIsLifetime ==
  (last.op = "issue_audit_ticket" /\ last.output.success)
    => /\ last.output.expiresIn = ticket.signed.exp - ticket.signed.iat
       /\ last.output.expiresIn
            = IF "validitySeconds" \in DOMAIN last.args
              THEN last.args.validitySeconds ELSE ToolDefaultValidity

\* A get_trust_score call that has returned.
Scored == last.op = "get_trust_score"

\* C24: get_trust_score recommends approve for a score of 80 or more, review
\* for a score from 60 to 79, and reject for a score below 60.
C24_RecommendationThresholds ==
  (Scored /\ last.agent # NoAgent)
    => /\ last.output.score = last.agent.trustScore
       /\ last.output.score \in 0..MaxScore
       /\ last.output.score >= 80 => last.output.recommendation = "approve"
       /\ (60 <= last.output.score /\ last.output.score < 80)
            => last.output.recommendation = "review"
       /\ last.output.score < 60 => last.output.recommendation = "reject"

\* C24 case: a stored score of exactly 80, from the database-backed server.
C24_EightyApproved ==
  /\ Scored
  /\ last.server = "database"
  /\ last.agent # NoAgent
  /\ last.agent.trustScore = 80
  /\ last.output.recommendation = "approve"

\* C25: for an agent id the store does not hold, get_trust_score returns
\* score 0, four factors of 0 and recommendation reject, and no error.
C25_UnknownAgentScoresZero ==
  (Scored /\ last.args.agentId \notin DOMAIN registry)
    => /\ last.output.agentId = last.args.agentId
       /\ last.output.score = 0
       /\ last.output.factors
            = [certification |-> 0, behavioral_health |-> 0,
               transaction_history |-> 0, domain_verification |-> 0]
       /\ last.output.recommendation = "reject"
       /\ "threw" \notin DOMAIN last.output

\* C25 case: the database-backed server asked for an unknown agent.
C25_UnknownAgentAsked ==
  /\ Scored
  /\ last.server = "database"
  /\ last.args.agentId = "agent-00000"
  /\ last.output.recommendation = "reject"

\* The kept result and the latest one are for snapshots that agree on
\* trustScore and auditLevel.
SameStoredScore ==
  /\ Scored
  /\ last.agent # NoAgent
  /\ noted # NoCall
  /\ noted.agent.trustScore = last.agent.trustScore
  /\ noted.agent.auditLevel = last.agent.auditLevel

\* C26: two snapshots that agree on trustScore and auditLevel get the same
\* score, level and recommendation, whatever their kill switch, mva_level and
\* health metrics; the certification factor is 0 under an active kill switch.
C26_ScoreReadFromSnapshot ==
  /\ SameStoredScore
       => /\ last.output.score = noted.output.score
          /\ last.output.level = noted.output.level
          /\ last.output.recommendation = noted.output.recommendation
  /\ (Scored /\ last.agent # NoAgent)
       => /\ last.output.level = last.agent.auditLevel
          /\ last.agent.killSwitchActive => last.output.factors.certification = 0

\* C26 case: two snapshots of one agent with the same stored score, the
\* later one with the kill switch active and other factors.
C26_SameScoreOtherFactors ==
  /\ SameStoredScore
  /\ last.agent.killSwitchActive
  /\ ~noted.agent.killSwitchActive
  /\ last.output.factors # noted.output.factors
  /\ last.output.factors.certification = 0
  /\ last.output.score = noted.output.score

\* C30: every tool call that queries the database eventually completes
\* with an outcome of its own, neither pending forever nor rejected.
C30_CallEventuallyReturns ==
  (last.op = "pending") ~> (last.op \notin {"pending", "rejected"})

\* C29: wrapGenerate never gives its caller a generation result whose
\* estimated cost, totalTokens times costPerToken, exceeds maxOpValue.
C29_CostCapped ==
  (last.op = "wrapGenerate" /\ "threw" \notin DOMAIN last.result)
    => EstimatedCost(last.options, last.result) <= last.options.maxOpValue

\* C35: validateTicket (and validateTicketSync) never accepts a token whose
\* signature verifies, that is unexpired, and whose iss differs from the
\* validating issuer's configured issuer: it is INVALID_SIGNATURE.
C35_ForeignIssuerRefused ==
  (/\ last.op \in {"validateTicket", "validateTicketSync"}
   /\ SignatureVerifies(last.by, last.token)
   /\ PayloadParses(Split(last.token.s)[2])
   /\ DecodePayload(Split(last.token.s)[2]).iss # Config(last.by).issuer
   /\ now < DecodePayload(Split(last.token.s)[2]).exp)
    => /\ ~last.result.valid
       /\ last.result.errorCode = "INVALID_SIGNATURE"

\* C35 case: an unexpired ticket signed with the authority's secret by the
\* instance configured with another issuer name, put to validateTicket.
C35_SiblingTicketRefused ==
  /\ ValidatedTicket
  /\ last.op = "validateTicket"
  /\ ticket.by = "sibling"
  /\ last.by = "hs"
  /\ SignatureVerifies(last.by, last.token)
  /\ now < ticket.signed.exp
  /\ last.result.errorCode = "INVALID_SIGNATURE"
  /\ last.result.error = IssuerMismatch(last.by)

\* C36: validateTicketSync returns what validateTicket resolves to, for the
\* same token, issuer configuration and clock value: the same valid flag,
\* errorCode, error message and payload.
C36_SyncEqualsAsync ==
  /\ last.op = "validateTicketSync"
       => last.result = validateTicket(last.by, last.token, now)
  /\ last.op = "validateTicket"
       => last.result = validateTicketSync(last.by, last.token, now)

\* C36 case: the synchronous path refuses a ticket with the embedded kill
\* switch, as the asynchronous path does.
C36_SyncRefusesKillSwitch ==
  /\ ValidatedTicket
  /\ last.op = "validateTicketSync"
  /\ Kind(last.result) = "KILL_SWITCH"
  /\ last.result = validateTicket(last.by, last.token, now)

\* C37: every request the gate handles ends in exactly one terminal outcome:
\* next() called once and nothing written, or exactly one rejection (one
\* response or one onError invocation) and next() never called.
C37_OneTerminalOutcome ==
  last.op = "createTrustProxy"
    => \/ /\ last.outcome.next = 1
          /\ last.outcome.responses = <<>>
          /\ last.outcome.onErrorCalls = <<>>
       \/ /\ last.outcome.next = 0
          /\ Len(last.outcome.responses) + Len(last.outcome.onErrorCalls) = 1

\* C31: every ticket issued, by generateTicket or through issue_audit_ticket
\* of either server, carries constraints.max_op_value > 0.
C31_PositiveLimit ==
  ticket # NoTicket
    => /\ "constraints" \in DOMAIN ticket.signed
       /\ "max_op_value" \in DOMAIN ticket.signed.constraints
       /\ ticket.signed.constraints.max_op_value > 0

\* An issue_audit_ticket call that has returned.
IssueReturned == last.op = "issue_audit_ticket"

\* C32: issue_audit_ticket issues no ticket for an agent that is not on file
\* or whose kill switch is active at the time of the call: it returns
\* success = false with an error and no ticket; every ticket it issues has
\* kill_switch_active not true.
C32_NoTicketForUnknownOrKilled ==
  /\ IssueReturned
       => /\ (\/ last.args.agentId \notin DOMAIN registry
               \/ registry[last.args.agentId].killSwitchActive)
               => /\ ~last.output.success
                  /\ "error" \in DOMAIN last.output
                  /\ "ticket" \notin DOMAIN last.output
          /\ last.output.success
               => /\ last.output.ticket = ticket.token
                  /\ ticket.signed.sub = last.args.agentId
  /\ (ticket # NoTicket /\ ticket.via = "issue_audit_ticket")
       => ~KillSwitchSet(ticket.signed)

\* C32 case: the database-backed server asked for a ticket for an agent
\* whose kill switch is active.
C32_KilledAgentRefused ==
  /\ IssueReturned
  /\ "server" \in DOMAIN last
  /\ last.args.agentId \in DOMAIN registry
  /\ registry[last.args.agentId].killSwitchActive
  /\ ~last.output.success
  /\ last.output.error = "Agent kill switch active"

\* An activate_kill_switch call reported success earlier, and its caller
\* kept the confirmation.
KillSwitchConfirmed == noted.op = "activate_kill_switch"

\* What the tools answer about the agent of the kept confirmation in calls
\* made after it: no ticket, not certified, certification factor 0.
AnsweredAsKilled ==
  /\ (IssueReturned /\ last.args.agentId = noted.args.agentId)
       => ~last.output.success
  /\ (last.op = "is_agent_certified" /\ last.args.agentId = noted.args.agentId)
       => ~last.output.certified
  /\ (last.op = "get_trust_score" /\ last.args.agentId = noted.args.agentId)
       => last.output.factors.certification = 0

\* C33 (as the code has it): once activate_kill_switch has reported success
\* for agent A, every later issue_audit_ticket(A) fails, is_agent_certified(A)
\* is false and A's certification factor is 0; if A is on file its
\* killSwitchActive is true in every later state.  The in-memory server
\* reports success only for agents on file, the database-backed server for
\* any id.
C33_KillSwitchPermanentOnFile ==
  KillSwitchConfirmed
    => /\ AnsweredAsKilled
       /\ noted.args.agentId \in DOMAIN registry
            => registry[noted.args.agentId].killSwitchActive
       /\ "server" \notin DOMAIN noted => noted.args.agentId \in DOMAIN registry

\* C33 case: after a confirmed activation for an agent on file, whose
\* certification has not run out, is_agent_certified answers false.
C33_KilledAgentUncertified ==
  /\ KillSwitchConfirmed
  /\ noted.args.agentId \in DOMAIN registry
  /\ last.op = "is_agent_certified"
  /\ last.args.agentId = noted.args.agentId
  /\ last.output.expiresAt > now
  /\ ~last.output.certified

\* C33 as stated: once activate_kill_switch has succeeded for agent A, the
\* registry's killSwitchActive for A is true in every later state, and the
\* tools answer accordingly.
C33_KillSwitchPermanent ==
  KillSwitchConfirmed
    => /\ AnsweredAsKilled
       /\ noted.args.agentId \in DOMAIN registry
       /\ registry[noted.args.agentId].killSwitchActive

\* C34: with issue_audit_ticket and activate_kill_switch for the same agent
\* running concurrently, no ticket is signed for the agent at a moment when
\* its kill switch flag on file is already true.
C34_NoTicketSignedUnderKillSwitch ==
  [][(ticket' # ticket /\ ticket'.via = "issue_audit_ticket")
       => ~registry[ticket'.signed.sub].killSwitchActive]_vars

\* C38: activate_kill_switch for an agent id that is not on file reports
\* success = false (and changes nothing on file).
C38_UnknownAgentNotSwitched ==
  (last.op = "activate_kill_switch" /\ last.args.agentId \notin DOMAIN registry)
    => ~last.output.success

\* C39: after activate_kill_switch has succeeded for an agent, the agent
\* appears in no later query_agents result, whatever the filters and limit.
C39_KilledAgentNotListed ==
  (KillSwitchConfirmed /\ last.op = "query_agents")
    => \A i \in DOMAIN last.output.results :
         last.output.results[i].agentId # noted.args.agentId

====
